---- MODULE Spec2Model ----
(***************************************************************************)
(* Model of the request/response engine of rust-xfinal (http-server):      *)
(* the connection driver handle_incoming, the head parser, the body        *)
(* reader, the router, the response builder and the response writer.       *)
(*                                                                         *)
(* Bytes are one-character strings and byte strings are sequences of them. *)
(* Option<T> is a sequence of length 0 (None) or 1 (Some).                 *)
(* Positions follow TLA+ (1-based); 0 stands for "not found".              *)
(***************************************************************************)
EXTENDS Integers, Sequences, FiniteSets, TLC

\* ------------------------------------------------------------------------
\* Bounds of the model (ServerConfig values and sizes of the explored input)
\* ------------------------------------------------------------------------
max_header_size == 64
read_buff_increase_size == 16
max_body_size == 4
MaxReqs == 2
MaxOps == 3

\* ------------------------------------------------------------------------
\* Byte-string helpers (Rust str / slice primitives)
\* ------------------------------------------------------------------------
Min(a, b) == IF a <= b THEN a ELSE b

CRLF == <<"\r", "\n">>
double_crlf == <<"\r", "\n", "\r", "\n">>

\* slice[i..].starts_with(pat), i 1-based
MatchAt(s, pat, i) ==
    /\ i >= 1
    /\ i + Len(pat) - 1 <= Len(s)
    /\ SubSeq(s, i, i + Len(pat) - 1) = pat

\* the scan of str::find from position i on
RECURSIVE FindFrom(_, _, _)
FindFrom(s, pat, i) ==
    IF i + Len(pat) - 1 > Len(s) THEN 0
    ELSE IF s[i] = pat[1] /\ SubSeq(s, i, i + Len(pat) - 1) = pat THEN i
    ELSE FindFrom(s, pat, i + 1)

\* str::find / windows(n).position: first position of pat in s, 0 when absent
Find(s, pat) == FindFrom(s, pat, 1)

\* the scan of str::rfind from position i down
RECURSIVE RFindFrom(_, _, _)
RFindFrom(s, pat, i) ==
    IF i < 1 THEN 0
    ELSE IF s[i] = pat[1] /\ SubSeq(s, i, i + Len(pat) - 1) = pat THEN i
    ELSE RFindFrom(s, pat, i - 1)

\* str::rfind: last position of pat in s, 0 when absent
RFind(s, pat) == RFindFrom(s, pat, Len(s) - Len(pat) + 1)

Contains(s, pat) == Find(s, pat) # 0

\* str::split_once: <<>> for None, <<left, right>> for Some((left, right))
split_once(s, pat) ==
    LET p == Find(s, pat)
    IN  IF p = 0 THEN <<>>
        ELSE <<SubSeq(s, 1, p - 1), SubSeq(s, p + Len(pat), Len(s))>>

\* str::split: the sequence of pieces (always at least one)
RECURSIVE split(_, _)
split(s, pat) ==
    LET p == Find(s, pat)
    IN  IF p = 0 THEN <<s>>
        ELSE <<SubSeq(s, 1, p - 1)>> \o split(SubSeq(s, p + Len(pat), Len(s)), pat)

\* The bytes of the model are the ASCII characters and the named bytes below.
\* The vertical tab (0x0B), for which TLA+ has no escape:
VerticalTab == "x0B"
\* char::is_whitespace on them: U+0009..U+000D and U+0020
WhiteSpace == {" ", "\t", "\n", VerticalTab, "\f", "\r"}

RECURSIVE trim_start(_)
trim_start(s) ==
    IF s # <<>> /\ Head(s) \in WhiteSpace THEN trim_start(Tail(s)) ELSE s

RECURSIVE trim_end(_)
trim_end(s) ==
    IF s # <<>> /\ s[Len(s)] \in WhiteSpace
    THEN trim_end(SubSeq(s, 1, Len(s) - 1)) ELSE s

\* str::trim
trim(s) == trim_end(trim_start(s))

UpperChars ==
    <<"A","B","C","D","E","F","G","H","I","J","K","L","M",
      "N","O","P","Q","R","S","T","U","V","W","X","Y","Z">>
LowerChars ==
    <<"a","b","c","d","e","f","g","h","i","j","k","l","m",
      "n","o","p","q","r","s","t","u","v","w","x","y","z">>

lower_char(c) ==
    IF \E i \in 1..26 : UpperChars[i] = c
    THEN LowerChars[CHOOSE i \in 1..26 : UpperChars[i] = c]
    ELSE c

\* str::to_lowercase
to_lowercase(s) == [i \in 1..Len(s) |-> lower_char(s[i])]

DecDigits == <<"0","1","2","3","4","5","6","7","8","9">>
HexDigits == <<"0","1","2","3","4","5","6","7","8","9","A","B","C","D","E","F">>

IsDigit(c) == \E i \in 1..10 : DecDigits[i] = c
DigitVal(c) == (CHOOSE i \in 1..10 : DecDigits[i] = c) - 1

RECURSIVE DigitsValue(_, _)
DigitsValue(s, acc) ==
    IF s = <<>> THEN acc ELSE DigitsValue(Tail(s), acc * 10 + DigitVal(Head(s)))

\* the digits of u64::MAX = usize::MAX = 2^64 - 1
U64MaxDigits ==
    <<"1","8","4","4","6","7","4","4","0","7","3","7","0","9","5","5","1","6","1","5">>

RECURSIVE strip_leading_zeros(_)
strip_leading_zeros(digits) ==
    IF digits # <<>> /\ Head(digits) = "0" THEN strip_leading_zeros(Tail(digits))
    ELSE digits

\* the number the digits spell is larger than 2^64 - 1 (PosOverflow)
exceeds_u64(digits) ==
    LET d == strip_leading_zeros(digits)
    IN  \/ Len(d) > Len(U64MaxDigits)
        \/ /\ Len(d) = Len(U64MaxDigits)
           /\ \E i \in 1..Len(d) :
                 /\ DigitVal(d[i]) > DigitVal(U64MaxDigits[i])
                 /\ \A j \in 1..(i - 1) : d[j] = U64MaxDigits[j]

\* <usize|u64 as FromStr>::from_str: an optional '+', then one or more decimal
\* digits that spell a number of at most 2^64 - 1; <<>> for Err, <<n>> for
\* Ok(n)
parse_unsigned(s) ==
    LET digits == IF s # <<>> /\ Head(s) = "+" THEN Tail(s) ELSE s
    IN  IF digits = <<>> \/ \E i \in 1..Len(digits) : ~IsDigit(digits[i])
        THEN <<>>
        ELSE IF exceeds_u64(digits) THEN <<>>
        ELSE <<DigitsValue(digits, 0)>>

\* usize::to_string
RECURSIVE to_string(_)
to_string(n) ==
    IF n < 10 THEN <<DecDigits[n + 1]>>
    ELSE to_string(n \div 10) \o <<DecDigits[(n % 10) + 1]>>

\* format!("{}", n) in place of format!("{:X}", n)
format_decimal(n) == to_string(n)

\* format!("{:X}", n)
RECURSIVE format_upper_hex(_)
format_upper_hex(n) ==
    IF n < 16 THEN <<HexDigits[n + 1]>>
    ELSE format_upper_hex(n \div 16) \o <<HexDigits[(n % 16) + 1]>>

\* A byte that is not part of any valid UTF-8 sequence (0xFF)
InvalidUtf8Byte == "xFF"
\* std::str::from_utf8(..).is_ok()
is_utf8(s) == \A i \in 1..Len(s) : s[i] # InvalidUtf8Byte

\* HashMap as a function; insert replaces the value of an equal key
EmptyMap == [k \in {} |-> <<>>]
map_insert(m, k, v) == [x \in (DOMAIN m) \cup {k} |-> IF x = k THEN v ELSE m[x]]
map_remove(m, k) == [x \in (DOMAIN m) \ {k} |-> m[x]]

\* keys().find(|k| k.to_lowercase() == name): the candidates among which the
\* HashMap's iteration order picks the first
keys_matching(m, name) == {k \in DOMAIN m : to_lowercase(k) = to_lowercase(name)}

\* ------------------------------------------------------------------------
\* Literal byte strings of the source
\* ------------------------------------------------------------------------
S_content_length ==
    <<"c","o","n","t","e","n","t","-","l","e","n","g","t","h">>
S_connection ==
    <<"c","o","n","n","e","c","t","i","o","n">>
S_keep_alive ==
    <<"k","e","e","p","-","a","l","i","v","e">>
S_content_type ==
    <<"c","o","n","t","e","n","t","-","t","y","p","e">>
S_multipart_form_data ==
    <<"m","u","l","t","i","p","a","r","t","/","f","o","r","m","-","d","a","t","a">>
S_x_www_form_urlencoded ==
    <<"a","p","p","l","i","c","a","t","i","o","n","/","x","-","w","w","w","-","f","o","r","m",
      "-","u","r","l","e","n","c","o","d","e","d">>
S_HEAD ==
    <<"H","E","A","D">>
S_Range ==
    <<"R","a","n","g","e">>
S_Content_length ==
    <<"C","o","n","t","e","n","t","-","l","e","n","g","t","h">>
S_Content_Length ==
    <<"C","o","n","t","e","n","t","-","L","e","n","g","t","h">>
S_Transfer_Encoding ==
    <<"T","r","a","n","s","f","e","r","-","E","n","c","o","d","i","n","g">>
S_chunked ==
    <<"c","h","u","n","k","e","d">>
S_Content_Range ==
    <<"C","o","n","t","e","n","t","-","R","a","n","g","e">>
S_Content_Type ==
    <<"C","o","n","t","e","n","t","-","T","y","p","e">>
S_Content_Disposition ==
    <<"C","o","n","t","e","n","t","-","D","i","s","p","o","s","i","t","i","o","n">>
S_Accept_Ranges ==
    <<"A","c","c","e","p","t","-","R","a","n","g","e","s">>
S_bytes ==
    <<"b","y","t","e","s">>
S_bytes_sp ==
    <<"b","y","t","e","s"," ">>
S_file_not_found ==
    <<" ","f","i","l","e"," ","n","o","t"," ","f","o","u","n","d">>
S_NEVER_FOUND_FOR_ALL ==
    <<"N","E","V","E","R","_","F","O","U","N","D","_","F","O","R","_","A","L","L">>
S_attachment ==
    <<"a","t","t","a","c","h","m","e","n","t",";"," ","f","i","l","e","n","a","m","e","=",
      "\"">>

\* ------------------------------------------------------------------------
\* Head parsing (http_parser.rs)
\* ------------------------------------------------------------------------

\* find_double_crlf: position of the first \r\n\r\n, 0 for (false, -1)
find_double_crlf(slice) == Find(slice, double_crlf)

\* the loop of parse_header over the header lines: every line must hold a ':',
\* key and value are trimmed and inserted into the map
RECURSIVE parse_header_lines(_, _)
parse_header_lines(items, head_map) ==
    IF items = <<>> THEN [ok |-> TRUE, map |-> head_map]
    ELSE LET kv == split_once(Head(items), <<":">>)
         IN  IF kv = <<>> THEN [ok |-> FALSE, map |-> head_map]
             ELSE parse_header_lines(Tail(items),
                                     map_insert(head_map, trim(kv[1]), trim(kv[2])))

NoRequest == [method |-> <<>>, url |-> <<>>, version |-> <<>>, map |-> EmptyMap]

\* parse_header: kind "err" for Err(InvalidData), "panic" when the request line
\* has fewer than three tokens (url_result[1] / url_result[2] out of bounds),
\* "ok" with (method, url, version, head_map) otherwise
parse_header(head_content) ==
    LET pos == Find(head_content, CRLF)
        url == SubSeq(head_content, 1, pos - 1)
        pieces == split(url, <<" ">>)
        url_result == [i \in 1..Len(pieces) |-> trim(pieces[i])]
        substr == SubSeq(head_content, pos + 2, Len(head_content))
        lines == parse_header_lines(split(substr, CRLF), EmptyMap)
    IN  IF pos = 0 THEN [kind |-> "err", req |-> NoRequest]
        ELSE IF ~lines.ok THEN [kind |-> "err", req |-> NoRequest]
        ELSE IF Len(url_result) < 3 THEN [kind |-> "panic", req |-> NoRequest]
        ELSE [kind |-> "ok",
              req |-> [method |-> url_result[1], url |-> url_result[2],
                       version |-> url_result[3], map |-> lines.map]]

\* has_body for the Content-Length key k that keys().find() returned
has_body_at(head_map, k) ==
    LET r == parse_unsigned(head_map[k])
    IN  IF r = <<>> THEN [tag |-> "Bad", len |-> 0] ELSE [tag |-> "Len", len |-> r[1]]

\* has_body: the results the HashMap's iteration order can produce (one result
\* unless the message holds Content-Length under several spellings)
has_body(head_map) ==
    IF keys_matching(head_map, S_content_length) = {}
    THEN {[tag |-> "None", len |-> 0]}
    ELSE {has_body_at(head_map, k) : k \in keys_matching(head_map, S_content_length)}

\* is_keep_alive: the results the HashMap's iteration order can produce
is_keep_alive(head_map) ==
    IF keys_matching(head_map, S_connection) = {}
    THEN {FALSE}
    ELSE {to_lowercase(head_map[k]) = S_keep_alive :
            k \in keys_matching(head_map, S_connection)}

\* ------------------------------------------------------------------------
\* Body reader for bodies that are not multipart/form-data (http_parser.rs)
\* ------------------------------------------------------------------------
BodyNone == [tag |-> "None", text |-> <<>>, form |-> EmptyMap]
BodyBad == [tag |-> "Bad", text |-> <<>>, form |-> EmptyMap]
BodyTooLarge == [tag |-> "TooLarge", text |-> <<>>, form |-> EmptyMap]

\* the map/filter/collect of parse_url_form_body over the '&' separated pairs
RECURSIVE url_form_pairs(_, _)
url_form_pairs(items, m) ==
    IF items = <<>> THEN m
    ELSE LET kv == split_once(Head(items), <<"=">>)
         IN  IF kv = <<>> \/ Len(kv[1]) = 0 \/ Len(kv[2]) = 0
             THEN url_form_pairs(Tail(items), m)
             ELSE url_form_pairs(Tail(items), map_insert(m, kv[1], kv[2]))

parse_url_form_body(container) ==
    IF is_utf8(container)
    THEN [tag |-> "UrlForm", text |-> <<>>,
          form |-> url_form_pairs(split(container, <<"&">>), EmptyMap)]
    ELSE BodyBad

is_multipart(body_type) == Contains(to_lowercase(body_type), S_multipart_form_data)

\* the tail of read_body_according_to_type once the container is complete
classify_body(body_type, container) ==
    IF to_lowercase(body_type) # S_x_www_form_urlencoded
    THEN IF is_utf8(container)
         THEN [tag |-> "PureText", text |-> container, form |-> EmptyMap]
         ELSE BodyBad
    ELSE parse_url_form_body(container)

\* ------------------------------------------------------------------------
\* Response builder (http_parser/connection.rs)
\* ------------------------------------------------------------------------
STATE_TABLE == <<
    <<101,
        <<"1","0","1"," ","S","w","i","t","c","h","i","n","g"," ","P","r","o","t","o","c","a",
          "l","s","\r","\n">>>>,
    <<200,
        <<"2","0","0"," ","O","K","\r","\n">>>>,
    <<201,
        <<"2","0","1"," ","C","r","e","a","t","e","d","\r","\n">>>>,
    <<202,
        <<"2","0","2"," ","A","c","c","e","p","t","e","d","\r","\n">>>>,
    <<204,
        <<"2","0","4"," ","N","o"," ","C","o","n","t","e","n","t","\r","\n">>>>,
    <<206,
        <<"2","0","6"," ","P","a","r","t","i","a","l"," ","C","o","n","t","e","n","t","\r",
          "\n">>>>,
    <<300,
        <<"3","0","0"," ","M","u","l","t","i","p","l","e"," ","C","h","o","i","c","e","s","\r",
          "\n">>>>,
    <<301,
        <<"3","0","1"," ","M","o","v","e","d"," ","P","e","r","m","a","n","e","n","t","l","y",
          "\r","\n">>>>,
    <<302,
        <<"3","0","2"," ","M","o","v","e","d"," ","T","e","m","p","o","r","a","r","i","l","y",
          "\r","\n">>>>,
    <<304,
        <<"3","0","4"," ","N","o","t"," ","M","o","d","i","f","i","e","d","\r","\n">>>>,
    <<400,
        <<"4","0","0"," ","B","a","d"," ","R","e","q","u","e","s","t","\r","\n">>>>,
    <<401,
        <<"4","0","1"," ","U","n","a","u","t","h","o","r","i","z","e","d","\r","\n">>>>,
    <<403,
        <<"4","0","3"," ","F","o","r","b","i","d","d","e","n","\r","\n">>>>,
    <<404,
        <<"4","0","4"," ","N","o","t"," ","F","o","u","n","d","\r","\n">>>>,
    <<413,
        <<"4","1","3"," ","R","e","q","u","e","s","t"," ","E","n","t","i","t","y"," ","T","o",
          "o"," ","L","a","r","g","e","\r","\n">>>>,
    <<416,
        <<"4","1","6"," ","R","e","q","u","e","s","t","e","d"," ","R","a","n","g","e"," ","N",
          "o","t"," ","S","a","t","i","s","f","i","a","b","l","e","\r","\n">>>>,
    <<500,
        <<"5","0","0"," ","I","n","t","e","r","n","a","l"," ","S","e","r","v","e","r"," ","E",
          "r","r","o","r","\r","\n">>>>,
    <<501,
        <<"5","0","1"," ","N","o","t"," ","I","m","p","l","e","m","e","n","t","e","d","\r",
          "\n">>>>,
    <<502,
        <<"5","0","2"," ","B","a","d"," ","G","a","t","e","w","a","y","\r","\n">>>>,
    <<503,
        <<"5","0","3"," ","S","e","r","v","i","c","e"," ","U","n","a","v","a","i","l","a","b",
          "l","e","\r","\n">>>>
>>

\* get_httpstatus_from_code: <<>> when the code is not in the table (the
\* source panics there), <<text>> otherwise
get_httpstatus_from_code(code) ==
    IF \E i \in 1..Len(STATE_TABLE) : STATE_TABLE[i][1] = code
    THEN <<STATE_TABLE[CHOOSE i \in 1..Len(STATE_TABLE) : STATE_TABLE[i][1] = code][2]>>
    ELSE <<>>

\* The files the handlers can name: path -> content; any other path cannot be
\* opened
PathA == <<"a", ".", "t", "x", "t">>
PathMissing == <<"b", ".", "t", "x", "t">>
Bytes10 == <<"0","1","2","3","4","5","6","7","8","9">>
HelloWorld == <<"h","e","l","l","o"," ","w","o","r","l","d">>
S_raw == <<"r","a","w">>
FileSystem == [p \in {PathA} |-> Bytes10]
file_exists(path) == path \in DOMAIN FileSystem

\* mime::extension_to_content_type: the extension -> content type table
S_txt == <<"t","x","t">>
S_text_plain == <<"t","e","x","t","/","p","l","a","i","n">>
extension_to_content_type(extension) ==
    IF extension = S_txt THEN S_text_plain ELSE <<>>

\* Path::file_name: the final component of the path, <<>> for None (the path
\* is empty, is `/`, or ends in `..`); trailing `/` and `/.` are ignored
RECURSIVE file_name(_)
file_name(path) ==
    IF path = <<>> THEN <<>>
    ELSE IF path[Len(path)] = "/" THEN file_name(SubSeq(path, 1, Len(path) - 1))
    ELSE IF Len(path) >= 2 /\ SubSeq(path, Len(path) - 1, Len(path)) = <<"/", ".">>
    THEN file_name(SubSeq(path, 1, Len(path) - 2))
    ELSE LET name == SubSeq(path, RFind(path, <<"/">>) + 1, Len(path))
         IN  IF name = <<".">> \/ name = <<".", ".">> THEN <<>> ELSE <<name>>

\* Path::extension: <<>> for None, <<ext>> for Some(ext): what follows the
\* last `.` of the file name, None when the name has no `.` or only begins
\* with it
path_extension(path) ==
    IF file_name(path) = <<>> THEN <<>>
    ELSE LET name == file_name(path)[1]
             p == RFind(name, <<".">>)
         IN  IF p <= 1 THEN <<>> ELSE <<SubSeq(name, p + 1, Len(name))>>

BodyTypeNone == [tag |-> "None", bytes |-> <<>>, path |-> <<>>]
Memory(v) == [tag |-> "Memory", bytes |-> v, path |-> <<>>]
File(path) == [tag |-> "File", bytes |-> <<>>, path |-> path]

RangeNone == [tag |-> "None", s |-> <<>>, e |-> <<>>]
Range(start, end) == [tag |-> "Range", s |-> start, e |-> end]

\* the Response that construct_http_event builds before routing
new_response(method, version, head_map) ==
    [header_pair |-> EmptyMap, version |-> version, method |-> method,
     http_state |-> 200, body |-> BodyTypeNone, chunked |-> FALSE,
     range |-> RangeNone, request_header |-> head_map]

\* Response::add_header
add_header(res, key, value) ==
    [res EXCEPT !.header_pair = map_insert(@, key, value)]

\* Response::remove_header: removes the one key that keys().find() returns;
\* the set of results the iteration order can produce
remove_header(res, key) ==
    IF keys_matching(res.header_pair, key) = {} THEN {res}
    ELSE {[res EXCEPT !.header_pair = map_remove(@, k)] :
            k \in keys_matching(res.header_pair, key)}

\* Response::header_exist (exact comparison of the name)
header_exist(res, s) == s \in DOMAIN res.header_pair

\* Response::write_binary (write_string converts and calls it)
write_binary(res, v) ==
    [add_header(res, S_Content_length, to_string(Len(v))) EXCEPT !.body = Memory(v)]

write_string(res, v) == write_binary(res, v)

\* Response::write_state
write_state(res, code) ==
    [add_header(res, S_Content_length, to_string(0)) EXCEPT
        !.http_state = code, !.body = BodyTypeNone]

\* a write_file whose ResponseConfig never carries has_failure
write_file_without_failure(res, path) ==
    IF file_exists(path)
    THEN <<[add_header(res, S_Content_length, to_string(Len(FileSystem[path])))
               EXCEPT !.body = File(path)], FALSE>>
    ELSE <<[write_string(res, path \o S_file_not_found) EXCEPT !.http_state = 404], FALSE>>

\* Response::write_file; the second component is has_failure of the returned
\* ResponseConfig
write_file(res, path) ==
    IF file_exists(path)
    THEN LET r1 == add_header(res, S_Content_length, to_string(Len(FileSystem[path])))
             ext == path_extension(path)
             ct == IF ext = <<>> THEN <<>> ELSE extension_to_content_type(ext[1])
             r2 == IF ct # <<>> /\ ~header_exist(r1, S_Content_Type)
                   THEN add_header(r1, S_Content_Type, ct) ELSE r1
         IN  <<[r2 EXCEPT !.body = File(path)], FALSE>>
    ELSE <<[write_string(res, path \o S_file_not_found) EXCEPT !.http_state = 404], TRUE>>

\* parse_range_content
parse_range_bound(s) ==
    IF s = <<>> THEN <<>> ELSE parse_unsigned(s)

parse_range_content(v) ==
    LET eq == split_once(trim(v), <<"=">>)
        dash == IF eq = <<>> THEN <<>> ELSE split_once(trim(eq[2]), <<"-">>)
    IN  IF eq = <<>> \/ dash = <<>> THEN Range(<<>>, <<>>)
        ELSE Range(parse_range_bound(dash[1]), parse_range_bound(dash[2]))

\* Response::get_request_header_value: the values keys().find() can return,
\* {} for None
get_request_header_value(res, k) ==
    {res.request_header[ik] : ik \in keys_matching(res.request_header, k)}

\* ResponseConfig::chunked (has_failure is checked by the caller); the set of
\* results: get_map_key returns any key spelled content-length
chunked(res) ==
    IF res.method = S_HEAD THEN {res}
    ELSE LET r1 == add_header(res, S_Transfer_Encoding, S_chunked)
         IN  IF keys_matching(r1.header_pair, S_content_length) = {}
             THEN {[r1 EXCEPT !.chunked = TRUE]}
             ELSE {[r1 EXCEPT !.header_pair = map_remove(@, k), !.chunked = TRUE] :
                     k \in keys_matching(r1.header_pair, S_content_length)}

\* ResponseConfig::status
status(res, code) == [res EXCEPT !.http_state = code]

\* ResponseConfig::specify_file_name; <<>> stands for the todo!() panic on a
\* response without body
specify_file_name(res, name) ==
    IF res.body.tag = "Memory" THEN <<res>>
    ELSE IF res.body.tag = "File"
    THEN IF ~header_exist(res, S_Content_Disposition)
         THEN <<add_header(res, S_Content_Disposition, S_attachment \o name \o <<"\"">>)>>
         ELSE <<res>>
    ELSE <<>>

\* ResponseConfig::enable_range: the set of results
enable_range(res) ==
    IF res.method = S_HEAD
    THEN LET r1 == add_header(res, S_Accept_Ranges, S_bytes)
         IN  IF r1.body.tag = "Memory"
             THEN {[add_header(r1, S_Content_length, to_string(Len(r1.body.bytes)))
                        EXCEPT !.http_state = 200]}
             ELSE IF r1.body.tag = "File"
             THEN IF file_exists(r1.body.path)
                  THEN {[add_header(r1, S_Content_length,
                                    to_string(Len(FileSystem[r1.body.path])))
                            EXCEPT !.http_state = 200]}
                  ELSE {write_state(r1, 404)}
             ELSE {r1}
    ELSE IF get_request_header_value(res, S_Range) = {}
         THEN {[res EXCEPT !.range = RangeNone]}
         ELSE {[res EXCEPT !.range = parse_range_content(v)] :
                 v \in get_request_header_value(res, S_Range)}

\* ------------------------------------------------------------------------
\* Response writer (connection.rs take_body_buff, http_parser.rs write_*)
\* ------------------------------------------------------------------------

\* u64 values: an integer n >= 0 stands for itself, n < 0 for the wrapped value
\* 2^64 + n that an overflowing subtraction leaves when overflow checks are off
u64_gt(a, b) == IF (a >= 0) = (b >= 0) THEN a > b ELSE a < 0
u64_ge(a, b) == a = b \/ u64_gt(a, b)

\* Response::take_body_size (<<>> when the file cannot be opened)
take_body_size(res) ==
    IF res.body.tag = "Memory" THEN <<Len(res.body.bytes)>>
    ELSE IF res.body.tag = "File"
    THEN IF file_exists(res.body.path) THEN <<Len(FileSystem[res.body.path])>> ELSE <<>>
    ELSE <<0>>

\* the bytes of the body, as LayzyBuffers hands them out
body_bytes(res) ==
    IF res.body.tag = "Memory" THEN res.body.bytes
    ELSE IF res.body.tag = "File" THEN FileSystem[res.body.path]
    ELSE <<>>

\* the window computation at the head of take_body_buff for Range(start, end):
\* todo     - the todo!() of the (None, None) case is reached
\* overflow - a subtraction on u64 overflows (panic with overflow checks,
\*            wrapped value without)
\* bad      - the condition that answers 416
range_window(range, body_size) ==
    LET lack_beg == range.s = <<>>
        has_end == range.e # <<>>
        end_pos == IF has_end /\ ~lack_beg THEN range.e[1] ELSE body_size - 1
        beg_pos == IF ~lack_beg THEN range.s[1]
                   ELSE IF has_end THEN body_size - range.e[1] ELSE 0
        ov_assign == \/ (has_end = lack_beg) /\ body_size = 0
                     \/ lack_beg /\ has_end /\ range.e[1] > body_size
        c1 == u64_gt(beg_pos, end_pos)
    IN  [todo |-> lack_beg /\ ~has_end,
         overflow |-> ov_assign \/ (~c1 /\ body_size = 0),
         beg_pos |-> beg_pos, end_pos |-> end_pos,
         bad |-> c1 \/ u64_ge(beg_pos, body_size - 1) \/ u64_ge(end_pos, body_size)]

content_range_value(beg_pos, end_pos, body_size) ==
    S_bytes_sp \o to_string(beg_pos) \o <<"-">> \o to_string(end_pos)
        \o <<"/">> \o to_string(body_size)

\* Response::take_body_buff: the set of outcomes; kind is "ok" (buffs is the
\* LayzyBuffers content), "err" (io::Error) or "panic"; res is the response
\* as the call leaves it.  overflow_checks tells whether the build panics on
\* arithmetic overflow.
take_body_buff(res, overflow_checks) ==
    LET size == take_body_size(res)
        body_size == size[1]
        w == range_window(res.range, body_size)
        r1 == add_header(res, S_Content_Range,
                         content_range_value(w.beg_pos, w.end_pos, body_size))
        len == to_string(w.end_pos - w.beg_pos + 1)
    IN  IF size = <<>> THEN {[kind |-> "err", res |-> res, buffs |-> <<>>]}
        ELSE IF res.range.tag = "None"
        THEN {[kind |-> "ok", res |-> res, buffs |-> body_bytes(res)]}
        ELSE IF w.todo \/ (overflow_checks /\ w.overflow)
        THEN {[kind |-> "panic", res |-> res, buffs |-> <<>>]}
        ELSE IF w.bad
        THEN {[kind |-> "err", res |-> write_state(res, 416), buffs |-> <<>>]}
        ELSE {[kind |-> "ok",
               res |-> [(IF ~r2.chunked THEN add_header(r2, S_Content_Length, len) ELSE r2)
                            EXCEPT !.http_state = 206],
               buffs |-> SubSeq(body_bytes(res), w.beg_pos + 1, w.end_pos + 1)] :
                r2 \in remove_header(r1, S_Content_Length)}

header_line(k, v) == k \o <<":", " ">> \o v \o CRLF

\* Response::header_to_string: the status line and the header lines; the
\* lines are emitted in the HashMap's iteration order, so they are kept as a
\* set; the header block is the status line, the lines in some order, and
\* \r\n.  panic: the status code is not in STATE_TABLE.
header_to_string(res) ==
    LET state_text == get_httpstatus_from_code(res.http_state)
    IN  [panic |-> state_text = <<>>,
         status_line |-> IF state_text = <<>> THEN <<>>
                         ELSE res.version \o <<" ">> \o state_text[1],
         headers |-> {header_line(k, res.header_pair[k]) : k \in DOMAIN res.header_pair}]

NoHeader == [panic |-> FALSE, status_line |-> <<>>, headers |-> {}]

\* the slices [start..end) that the writer loops cut from the body; chunk_size
\* is at least 1 here
RECURSIVE body_slices(_, _)
body_slices(buffs, chunk_size) ==
    IF Len(buffs) = 0 THEN <<>>
    ELSE LET end == Min(chunk_size, Len(buffs))
         IN  <<SubSeq(buffs, 1, end)>>
                \o body_slices(SubSeq(buffs, end + 1, Len(buffs)), chunk_size)

\* the stream.write calls of the write_chunk loop, and the closing one
RECURSIVE chunk_frames(_)
chunk_frames(slices) ==
    IF slices = <<>> THEN << <<"0", "\r", "\n", "\r", "\n">> >>
    ELSE <<format_upper_hex(Len(Head(slices))), CRLF, Head(slices), CRLF>>
            \o chunk_frames(Tail(slices))

\* A writer outcome: kind "ok" means that every call before the socket writes
\* succeeded; header is the first stream.write, writes are the following ones.
WriterOutcome(kind, res, header, writes) ==
    [kind |-> kind, res |-> res, header |-> header, writes |-> writes]

\* write_once without its branch for HEAD
write_once_with_body(res, chunk_size, overflow_checks) ==
    {IF b.kind # "ok" THEN WriterOutcome(b.kind, b.res, NoHeader, <<>>)
     ELSE IF header_to_string(b.res).panic
     THEN WriterOutcome("panic", b.res, NoHeader, <<>>)
     ELSE WriterOutcome("ok", b.res, header_to_string(b.res),
                        body_slices(b.buffs, chunk_size)) :
        b \in take_body_buff(res, overflow_checks)}

\* write_once, up to the socket writes
write_once(res, chunk_size, overflow_checks) ==
    IF res.method = S_HEAD
    THEN {IF header_to_string(res).panic
          THEN WriterOutcome("panic", res, NoHeader, <<>>)
          ELSE WriterOutcome("ok", res, header_to_string(res), <<>>)}
    ELSE {IF b.kind # "ok" THEN WriterOutcome(b.kind, b.res, NoHeader, <<>>)
          ELSE IF header_to_string(b.res).panic
          THEN WriterOutcome("panic", b.res, NoHeader, <<>>)
          ELSE WriterOutcome("ok", b.res, header_to_string(b.res),
                             body_slices(b.buffs, chunk_size)) :
            b \in take_body_buff(res, overflow_checks)}

\* write_chunk, up to the socket writes
write_chunk(res, chunk_size, overflow_checks) ==
    {IF b.kind # "ok" THEN WriterOutcome(b.kind, b.res, NoHeader, <<>>)
     ELSE IF header_to_string(b.res).panic
     THEN WriterOutcome("panic", b.res, NoHeader, <<>>)
     ELSE IF b.res.method = S_HEAD
     THEN WriterOutcome("ok", b.res, header_to_string(b.res), <<>>)
     ELSE WriterOutcome("ok", b.res, header_to_string(b.res),
                        chunk_frames(body_slices(b.buffs, chunk_size))) :
        b \in take_body_buff(res, overflow_checks)}

\* concatenation of a sequence of byte strings
RECURSIVE concat(_)
concat(ss) == IF ss = <<>> THEN <<>> ELSE Head(ss) \o concat(Tail(ss))

\* ------------------------------------------------------------------------
\* Router and handlers (http_parser.rs do_router, lib.rs)
\* ------------------------------------------------------------------------
RouteGetRoot ==
    <<"G","E","T","/">>

RouteHeadRoot ==
    <<"H","E","A","D","/">>

RoutePostP ==
    <<"P","O","S","T","/","p">>

RouteWildcard ==
    <<"G","E","T","/","w","i","l","d","c","a","r","d","/","*">>

S_3 ==
    <<"3">>

S_f ==
    <<"f">>

\* the keys of the router map once run() has installed the default not-found
\* entry
RouterKeys == {RouteGetRoot, RouteHeadRoot, RoutePostP, RouteWildcard, S_NEVER_FOUND_FOR_ALL}

\* the closure of do_router that tests a registered key k against the
\* request's key
wildcard_match(k, key) ==
    LET last == Len(k) - 1
    IN  /\ SubSeq(k, last + 1, Len(k)) = <<"*">>
        /\ Len(key) > last - 1
        /\ SubSeq(k, 1, last - 1) = SubSeq(key, 1, last - 1)

\* a lookup key that keeps the query string
router_key_with_query(req) == req.method \o req.url

\* the key do_router looks up: method + url up to the first '?'
router_key(req) ==
    LET url == split_once(req.url, <<"?">>)
    IN  req.method \o (IF url = <<>> THEN req.url ELSE url[1])

\* an entry do_router selects, with the arm of its match that selected it
Selected(key, via) == [key |-> key, via |-> via]

\* a lookup that tries the wildcard entries before the exact key
do_router_wildcard_first(router, req) ==
    IF \E k \in DOMAIN router : wildcard_match(k, router_key(req))
    THEN {Selected(k, "wildcard") :
            k \in {x \in DOMAIN router : wildcard_match(x, router_key(req))}}
    ELSE IF router_key(req) \in DOMAIN router
    THEN {Selected(router_key(req), "exact")}
    ELSE {Selected(S_NEVER_FOUND_FOR_ALL, "not_found")}

\* do_router: the entries that can be selected (keys().find() takes any
\* matching wildcard entry)
do_router(router, req) ==
    IF router_key(req) \in DOMAIN router
    THEN {Selected(router_key(req), "exact")}
    ELSE IF \E k \in DOMAIN router : wildcard_match(k, router_key(req))
    THEN {Selected(k, "wildcard") :
            k \in {x \in DOMAIN router : wildcard_match(x, router_key(req))}}
    ELSE {Selected(S_NEVER_FOUND_FOR_ALL, "not_found")}

\* What a handler can do to the Response: the calls of the builder API with
\* the arguments explored
HandlerOps ==
    {[name |-> "write_string", a |-> HelloWorld, b |-> <<>>, code |-> 0],
     [name |-> "write_file", a |-> PathA, b |-> <<>>, code |-> 0],
     [name |-> "write_file", a |-> PathMissing, b |-> <<>>, code |-> 0],
     [name |-> "write_state", a |-> <<>>, b |-> <<>>, code |-> 404],
     [name |-> "add_header", a |-> S_Content_Length, b |-> S_3, code |-> 0],
     [name |-> "add_header", a |-> S_content_type, b |-> S_text_plain, code |-> 0],
     [name |-> "chunked", a |-> <<>>, b |-> <<>>, code |-> 0],
     [name |-> "status", a |-> <<>>, b |-> <<>>, code |-> 404],
     [name |-> "enable_range", a |-> <<>>, b |-> <<>>, code |-> 0],
     [name |-> "specify_file_name", a |-> S_f, b |-> <<>>, code |-> 0],
     [name |-> "write_binary", a |-> <<InvalidUtf8Byte>>, b |-> <<>>, code |-> 0],
     [name |-> "remove_header", a |-> S_content_length, b |-> <<>>, code |-> 0],
     [name |-> "remove_header", a |-> S_Transfer_Encoding, b |-> <<>>, code |-> 0],
     [name |-> "remove_header", a |-> S_Content_Type, b |-> <<>>, code |-> 0],
     [name |-> "conn_write", a |-> S_raw, b |-> <<>>, code |-> 0]}

\* A handler in progress: the Response, the ResponseConfig it holds ("none",
\* "ok", or "failed" for has_failure), whether it panicked, and the bytes it
\* has written to the socket itself through get_conn()
HandlerState(res, cfg, panic) ==
    [res |-> res, cfg |-> cfg, panic |-> panic, raw |-> <<>>]

\* one call of the builder API; {} when the call does not type-check (a
\* ResponseConfig method without a ResponseConfig)
builder_call(st, op) ==
    IF op.name = "write_string"
    THEN {HandlerState(write_string(st.res, op.a), "ok", FALSE)}
    ELSE IF op.name = "write_binary"
    THEN {HandlerState(write_binary(st.res, op.a), "ok", FALSE)}
    ELSE IF op.name = "remove_header"
    THEN {HandlerState(r, "none", FALSE) : r \in remove_header(st.res, op.a)}
    ELSE IF op.name = "write_file"
    THEN {HandlerState(write_file(st.res, op.a)[1],
                       IF write_file(st.res, op.a)[2] THEN "failed" ELSE "ok", FALSE)}
    ELSE IF op.name = "write_state"
    THEN {HandlerState(write_state(st.res, op.code), "none", FALSE)}
    ELSE IF op.name = "add_header"
    THEN {HandlerState(add_header(st.res, op.a, op.b), "none", FALSE)}
    ELSE IF st.cfg = "none" THEN {}
    ELSE IF st.cfg = "failed" THEN {st}
    ELSE IF op.name = "chunked"
    THEN {HandlerState(r, "ok", FALSE) : r \in chunked(st.res)}
    ELSE IF op.name = "status"
    THEN {HandlerState(status(st.res, op.code), "ok", FALSE)}
    ELSE IF op.name = "enable_range"
    THEN {HandlerState(r, "ok", FALSE) : r \in enable_range(st.res)}
    ELSE IF specify_file_name(st.res, op.a) = <<>>
    THEN {HandlerState(st.res, "ok", TRUE)}
    ELSE {HandlerState(specify_file_name(st.res, op.a)[1], "ok", FALSE)}

\* one statement of a handler: a call of the builder API, or a write to the
\* socket taken with get_conn(), which leaves the Response as it is
apply_op(st, op) ==
    IF st.panic THEN {st}
    ELSE IF op.name = "conn_write"
    THEN {[st EXCEPT !.raw = @ \o op.a, !.cfg = "none"]}
    ELSE {[s EXCEPT !.raw = st.raw] : s \in builder_call(st, op)}

\* the states in which handlers of at most n calls can leave the Response
RECURSIVE handler_states(_, _)
handler_states(S, n) ==
    IF n = 0 THEN S
    ELSE handler_states(S \cup UNION {apply_op(st, op) : st \in S, op \in HandlerOps}, n - 1)

\* the default not-found handler (not_found_default_if_not_set)
not_found_default(res) == write_state(res, 404)

\* RouterValue = (Option<MiddleWareVec>, Arc<dyn Router>): middlewares is
\* <<>> for None and <<chain>> for Some(chain); router names the closure
RouterValue(middlewares, router) == [middlewares |-> middlewares, router |-> router]

\* Router::call for the closure h: the default not-found closure, or an
\* application closure making at most n builder calls
router_call(h, res, n) ==
    IF h = "not_found_default"
    THEN {HandlerState(not_found_default(res), "none", FALSE)}
    ELSE handler_states({HandlerState(res, "none", FALSE)}, n)

S_id ==
    <<"i","d">>

S_1 ==
    <<"1">>

S_X_Middleware ==
    <<"X","-","M","i","d","d","l","e","w","a","r","e">>

S_invalid_id ==
    <<"i","n","v","a","l","i","d"," ","r","e","q","u","e","s","t",","," ","i","n","v","a","l","i","d"," ","i","d"," ","v","a","l","u","e">>

S_no_id ==
    <<"i","n","v","a","l","i","d"," ","r","e","q","u","e","s","t",","," ","n","o"," ","i","d">>

\* the first value of key k among the pieces of a query string
RECURSIVE find_param(_, _)
find_param(pieces, k) ==
    IF pieces = <<>> THEN <<>>
    ELSE LET e == split_once(Head(pieces), <<"=">>)
         IN  IF e # <<>> /\ e[1] = k THEN <<e[2]>>
             ELSE find_param(Tail(pieces), k)

\* Request::get_param: <<>> for None, <<v>> for Some(v)
get_param(req, k) ==
    LET u == split_once(req.url, <<"?">>)
    IN  IF u = <<>> THEN <<>> ELSE find_param(split(u[2], <<"&">>), k)

\* the middleware closures explored: the two of main.rs and one that adds a
\* header and lets the chain go on
MiddleWares == {"middleware1", "interrupt_one", "add_header"}

\* MiddleWare::call: the Response it leaves and the bool it returns
middleware_call(m, req, res) ==
    IF m = "middleware1" THEN [res |-> res, r |-> TRUE]
    ELSE IF m = "add_header"
    THEN [res |-> add_header(res, S_X_Middleware, S_1), r |-> TRUE]
    ELSE IF get_param(req, S_id) = <<>>
    THEN [res |-> status(write_string(res, S_no_id), 400), r |-> FALSE]
    ELSE IF get_param(req, S_id)[1] = S_1 THEN [res |-> res, r |-> TRUE]
    ELSE [res |-> status(write_string(res, S_invalid_id), 400), r |-> FALSE]

\* one call of a closure: f is the middleware, or "router" for Router::call,
\* r the bool a middleware returned (TRUE for the router, which returns none)
Call(f, r) == [f |-> f, r |-> r]

\* the for loop of invoke_router over the rest of the chain: the Response,
\* the flag r and the closures called so far
RECURSIVE run_middlewares(_, _, _, _)
run_middlewares(chain, req, res, calls) ==
    IF chain = <<>> THEN [res |-> res, r |-> TRUE, calls |-> calls]
    ELSE LET m == middleware_call(Head(chain), req, res)
         IN  IF ~m.r
             THEN [res |-> m.res, r |-> FALSE,
                   calls |-> Append(calls, Call(Head(chain), FALSE))]
             ELSE run_middlewares(Tail(chain), req, m.res,
                                  Append(calls, Call(Head(chain), TRUE)))


\* the outcome of one routed request: the Response, whether a closure
\* panicked, the calls made in order, and the bytes the router wrote to the
\* socket itself
Invocation(res, panic, calls) ==
    [res |-> res, panic |-> panic, calls |-> calls, raw |-> <<>>]

\* the outcome when the router has returned in the state st
Invoked(st, calls) == [Invocation(st.res, st.panic, calls) EXCEPT !.raw = st.raw]

\* an invoke_router that calls the router whatever the middlewares returned
invoke_router_always(result, req, res, n) ==
    LET m == IF result.middlewares = <<>> THEN [res |-> res, r |-> TRUE, calls |-> <<>>]
             ELSE run_middlewares(result.middlewares[1], req, res, <<>>)
    IN  {Invoked(st, Append(m.calls, Call("router", TRUE))) :
           st \in router_call(result.router, m.res, n)}

\* invoke_router
invoke_router(result, req, res, n) ==
    IF result.middlewares = <<>>
    THEN {Invoked(st, <<Call("router", TRUE)>>) :
            st \in router_call(result.router, res, n)}
    ELSE LET m == run_middlewares(result.middlewares[1], req, res, <<>>)
         IN  IF m.r
             THEN {Invoked(st, Append(m.calls, Call("router", TRUE))) :
                     st \in router_call(result.router, m.res, n)}
             ELSE {Invocation(m.res, FALSE, m.calls)}

\* the call do_router makes for the selection sel: invoke_router for an
\* exact or wildcard entry, the router of the not-found entry otherwise
\* (unwrap() panics when there is none)
do_router_call(router, sel, req, res, n) ==
    IF sel.via # "not_found" THEN invoke_router(router[sel.key], req, res, n)
    ELSE IF S_NEVER_FOUND_FOR_ALL \notin DOMAIN router
    THEN {Invocation(res, TRUE, <<>>)}
    ELSE {Invoked(st, <<Call("router", TRUE)>>) :
            st \in router_call(router[S_NEVER_FOUND_FOR_ALL].router, res, n)}

\* RouterRegister::reg / reg_with_middlewares: one insert per method
RECURSIVE reg(_, _, _, _)
reg(router, methods, path, value) ==
    IF methods = <<>> THEN router
    ELSE reg(map_insert(router, Head(methods) \o path, value), Tail(methods), path, value)

\* HttpServer::set_not_found
set_not_found(router, f) ==
    map_insert(router, S_NEVER_FOUND_FOR_ALL, RouterValue(<<>>, f))

\* a start-up that installs the default whatever is registered
set_not_found_default(router) == set_not_found(router, "not_found_default")

\* HttpServer::not_found_default_if_not_set
not_found_default_if_not_set(router) ==
    IF S_NEVER_FOUND_FOR_ALL \in DOMAIN router THEN router
    ELSE set_not_found(router, "not_found_default")

\* the router map of the connection driver: RouterKeys registered without
\* middlewares, the not-found entry being the default
ServerRouter ==
    [k \in RouterKeys |->
       RouterValue(<<>>, IF k = S_NEVER_FOUND_FOR_ALL THEN "not_found_default"
                         ELSE "handler")]

\* ------------------------------------------------------------------------
\* The byte streams a client sends
\* ------------------------------------------------------------------------
\* GET / with Connection: keep-alive
ReqKeepAlive ==
    <<"G","E","T"," ","/"," ","H","T","T","P","/","1",".","1","\r","\n","C","o","n","n","e","c",
      "t","i","o","n",":"," ","k","e","e","p","-","a","l","i","v","e","\r","\n","\r","\n">>

\* the same with other letter case
ReqKeepAliveCase ==
    <<"G","E","T"," ","/"," ","H","T","T","P","/","1",".","1","\r","\n","C","O","N","N","E","C",
      "T","I","O","N",":"," ","K","e","e","p","-","A","l","i","v","e","\r","\n","\r","\n">>

\* Connection: close
ReqClose ==
    <<"G","E","T"," ","/"," ","H","T","T","P","/","1",".","1","\r","\n","C","o","n","n","e","c",
      "t","i","o","n",":"," ","c","l","o","s","e","\r","\n","\r","\n">>

\* no Connection header, unrouted path
ReqNoConnection ==
    <<"G","E","T"," ","/","x"," ","H","T","T","P","/","1",".","1","\r","\n","H","o","s","t",":",
      " ","x","\r","\n","\r","\n">>

\* HEAD request
ReqHead ==
    <<"H","E","A","D"," ","/"," ","H","T","T","P","/","1",".","1","\r","\n","H","o","s","t",":",
      " ","x","\r","\n","\r","\n">>

\* request line with two tokens
ReqShortLine ==
    <<"G","E","T"," ","/","\r","\n","H","o","s","t",":"," ","x","\r","\n","\r","\n">>

\* header line without colon
ReqNoColon ==
    <<"G","E","T"," ","/"," ","H","T","T","P","/","1",".","1","\r","\n","H","o","s","t","\r",
      "\n","\r","\n">>

\* no header line at all
ReqNoHeaders ==
    <<"G","E","T"," ","/"," ","H","T","T","P","/","1",".","1","\r","\n","\r","\n">>

\* head that is not UTF-8
ReqInvalidUtf8 ==
    <<"G","E","T"," ","/"," ","H","T","T","P","/","1",".","1","\r","\n","A",":"," ",
      InvalidUtf8Byte,"\r","\n","\r","\n">>

\* unparsable Content-Length
ReqBadLength ==
    <<"P","O","S","T"," ","/","p"," ","H","T","T","P","/","1",".","1","\r","\n","C","o","n","t",
      "e","n","t","-","L","e","n","g","t","h",":"," ","x","\r","\n","\r","\n">>

\* body without Content-Type
ReqNoContentType ==
    <<"P","O","S","T"," ","/","p"," ","H","T","T","P","/","1",".","1","\r","\n","C","o","n","t",
      "e","n","t","-","L","e","n","g","t","h",":"," ","3","\r","\n","\r","\n","a","b","c">>

\* 3-byte text body
ReqText ==
    <<"P","O","S","T"," ","/","p"," ","H","T","T","P","/","1",".","1","\r","\n","C","o","n","t",
      "e","n","t","-","T","y","p","e",":"," ","t","\r","\n","C","o","n","t","e","n","t","-","L",
      "e","n","g","t","h",":"," ","3","\r","\n","\r","\n","a","b","c">>

\* 3-byte body that is not UTF-8
ReqTextBad ==
    <<"P","O","S","T"," ","/","p"," ","H","T","T","P","/","1",".","1","\r","\n","C","o","n","t",
      "e","n","t","-","T","y","p","e",":"," ","t","\r","\n","C","o","n","t","e","n","t","-","L",
      "e","n","g","t","h",":"," ","3","\r","\n","\r","\n","a",InvalidUtf8Byte,"c">>

\* 5-byte body, above max_body_size
ReqTooLarge ==
    <<"P","O","S","T"," ","/","p"," ","H","T","T","P","/","1",".","1","\r","\n","C","o","n","t",
      "e","n","t","-","T","y","p","e",":"," ","t","\r","\n","C","o","n","t","e","n","t","-","L",
      "e","n","g","t","h",":"," ","5","\r","\n","\r","\n","1","2","3","4","5">>

\* Range header with neither bound
ReqRangeNoBounds ==
    <<"G","E","T"," ","/"," ","H","T","T","P","/","1",".","1","\r","\n","R","a","n","g","e",":",
      " ","b","y","t","e","s","=","-","\r","\n","\r","\n">>

\* Connection twice, spelled differently
ReqTwoConnection ==
    <<"G","E","T"," ","/"," ","H","T","T","P","/","1",".","1","\r","\n","C","o","n","n","e","c",
      "t","i","o","n",":"," ","c","l","o","s","e","\r","\n","c","o","n","n","e","c","t","i","o",
      "n",":"," ","k","e","e","p","-","a","l","i","v","e","\r","\n","\r","\n">>

\* head above max_header_size
ReqLongHead ==
    <<"G","E","T"," ","/"," ","H","T","T","P","/","1",".","1","\r","\n","C","o","n","n","e","c",
      "t","i","o","n",":"," ","k","e","e","p","-","a","l","i","v","e","\r","\n","X","-","P","a",
      "d","d","i","n","g",":"," ","0","1","2","3","4","5","6","7","8","9","a","b","c","d","e",
      "f","\r","\n","\r","\n">>

\* two requests sent back to back
ReqPipelined ==
    <<"G","E","T"," ","/"," ","H","T","T","P","/","1",".","1","\r","\n","C","o","n","n","e","c",
      "t","i","o","n",":"," ","k","e","e","p","-","a","l","i","v","e","\r","\n","\r","\n","G",
      "E","T"," ","/","x"," ","H","T","T","P","/","1",".","1","\r","\n","H","o","s","t",":"," ",
      "x","\r","\n","\r","\n">>

\* what a client sends first on a connection
FirstRequests ==
    {ReqKeepAlive, ReqKeepAliveCase, ReqClose, ReqNoConnection, ReqHead, ReqShortLine,
     ReqNoColon, ReqNoHeaders, ReqInvalidUtf8, ReqBadLength, ReqNoContentType, ReqText,
     ReqTextBad, ReqTooLarge, ReqRangeNoBounds, ReqTwoConnection, ReqLongHead,
     ReqPipelined}

\* what it sends after it has received a response
NextRequests == {ReqKeepAlive, ReqClose, ReqNoColon}

\* parsed heads for the exploration of the response builder and writer
HeadGet ==
    <<"G","E","T"," ","/"," ","H","T","T","P","/","1",".","1","\r","\n","C","o","n","n","e","c",
      "t","i","o","n",":"," ","k","e","e","p","-","a","l","i","v","e">>

HeadGetRange25 ==
    <<"G","E","T"," ","/"," ","H","T","T","P","/","1",".","1","\r","\n","R","a","n","g","e",":",
      " ","b","y","t","e","s","=","2","-","5">>

HeadGetRange99 ==
    <<"G","E","T"," ","/"," ","H","T","T","P","/","1",".","1","\r","\n","R","a","n","g","e",":",
      " ","b","y","t","e","s","=","9","-","9">>

HeadGetRange5 ==
    <<"G","E","T"," ","/"," ","H","T","T","P","/","1",".","1","\r","\n","R","a","n","g","e",":",
      " ","b","y","t","e","s","=","5","-">>

HeadGetRangeLast3 ==
    <<"G","E","T"," ","/"," ","H","T","T","P","/","1",".","1","\r","\n","R","a","n","g","e",":",
      " ","b","y","t","e","s","=","-","3">>

HeadGetRangeNone ==
    <<"G","E","T"," ","/"," ","H","T","T","P","/","1",".","1","\r","\n","R","a","n","g","e",":",
      " ","b","y","t","e","s","=","-">>

HeadGetRange2030 ==
    <<"G","E","T"," ","/"," ","H","T","T","P","/","1",".","1","\r","\n","R","a","n","g","e",":",
      " ","b","y","t","e","s","=","2","0","-","3","0">>

HeadHead ==
    <<"H","E","A","D"," ","/"," ","H","T","T","P","/","1",".","1","\r","\n","H","o","s","t",":",
      " ","x">>

HeadHeadRange25 ==
    <<"H","E","A","D"," ","/"," ","H","T","T","P","/","1",".","1","\r","\n","R","a","n","g","e",
      ":"," ","b","y","t","e","s","=","2","-","5">>

WriterHeads ==
    {HeadGet, HeadGetRange25, HeadGetRange99, HeadGetRange5, HeadGetRangeLast3,
     HeadGetRangeNone, HeadGetRange2030, HeadHead, HeadHeadRange25}

\* ServerConfig.chunk_size values explored
ChunkSizes == {4, 16}
DriverOps == 1

\* ------------------------------------------------------------------------
\* State
\* ------------------------------------------------------------------------
VARIABLES
    wire,           \* bytes the client has sent and the server has not read
    sent,           \* number of request messages the client has sent
    pc,             \* position of the worker in handle_incoming
    read_buffs,     \* read_http_head: read_buffs[..total_read_size]
    cap,            \* read_http_head: read_buffs.len()
    nreq,           \* iteration of the 'Back loop (1 for the first request)
    head_content,   \* the head read_http_head returned in this iteration
    request,        \* method, url, version and head_map of parse_header
    need_alive,     \* is_keep_alive(&map)
    body_type,      \* read_body: value of the Content-Type header
    container,      \* read_body_according_to_type: the body read so far
    need_read_size, \* read_body_according_to_type: bytes still to read
    body,           \* the BodyContent handed to construct_http_event
    response,       \* the Response of construct_http_event
    out,            \* what the stream.write calls of this iteration wrote
    result,         \* how this iteration ended
    handled,        \* iterations for which do_router ran
    written,        \* iterations whose response was written completely
    chunk_size,     \* ServerConfig.chunk_size
    ops_bound,      \* largest number of builder calls of a handler
    router_map,     \* HttpServer.router, ConnectionData.router_map after run()
    invoked,        \* the entry do_router selected and the closures it called
    mp,             \* read_multiple_form_body: its locals while it runs
    upload_directory, \* the spool files created under ServerConfig.upload_directory
    posted,         \* the multipart form the client has encoded in its request
    pool,           \* the ThreadPool of run() and the state of its workers
    writer          \* write_once / write_chunk: the locals of the loop while it runs

vars ==
    <<wire, sent, pc, read_buffs, cap, nreq, head_content, request, need_alive,
      body_type, container, need_read_size, body, response, out, result, handled,
      written, chunk_size, ops_bound, router_map, invoked, mp, upload_directory,
      posted, pool, writer>>

NoResponse == new_response(<<>>, <<>>, EmptyMap)
\* what has gone to the socket for the request of this iteration: raw is
\* what its handler wrote itself, before the header block of the writer
NoOut == [sent_header |-> FALSE, header |-> NoHeader, writes |-> <<>>, raw |-> <<>>]
NoInvocation == [key |-> <<>>, via |-> "", calls |-> <<>>]
NoMp == [at |-> ""]
NoForm == [parts |-> <<>>, epilogue |-> <<>>]
NoPool == [tasks |-> <<>>, index |-> 0, max |-> 0, polls |-> <<>>]
NoWriter == [lazy_buffs |-> <<>>, start |-> 0, rounds |-> 0, call |-> 0]

\* ------------------------------------------------------------------------
\* handle_incoming between two socket operations
\* ------------------------------------------------------------------------

\* where handle_incoming stands after the head and the part of the body that
\* needs no further read
Ctl(p, res, req, alive, btype, cont, need, b) ==
    [pc |-> p, result |-> res, request |-> req, need_alive |-> alive,
     body_type |-> btype, container |-> cont, need_read_size |-> need, body |-> b]

\* a rejection after which the driver goes on to construct_http_event
Rejected_without_break == Ctl("route", "rejected", NoRequest, FALSE, <<>>, <<>>, 0, BodyNone)

Rejected == Ctl("closed", "rejected", NoRequest, FALSE, <<>>, <<>>, 0, BodyNone)
Panicked == Ctl("panicked", "panic", NoRequest, FALSE, <<>>, <<>>, 0, BodyNone)

\* the end of read_body_according_to_type for a complete container, and the
\* test of handle_incoming on the BodyContent
body_complete(req, alive, btype, cont) ==
    IF classify_body(btype, cont).tag = "Bad" THEN Rejected
    ELSE Ctl("route", "", req, alive, btype, cont, 0, classify_body(btype, cont))

\* read_body_according_to_type up to its first socket read
read_body_according_to_type(req, alive, btype, cont, need) ==
    IF is_multipart(btype)
    THEN Ctl("multipart", "", req, alive, btype, cont, need, BodyNone)
    ELSE IF need # 0
    THEN IF Len(cont) + need > max_body_size THEN Rejected
         ELSE Ctl("read_body", "", req, alive, btype, cont, need, BodyNone)
    ELSE body_complete(req, alive, btype, cont)

\* read_body up to its first socket read: the set of continuations
read_body(req, alive, partial_body, len) ==
    IF len > 0
    THEN IF keys_matching(req.map, S_content_type) = {} THEN {Rejected}
         ELSE {read_body_according_to_type(
                   req, alive, req.map[k], partial_body,
                   IF len > Len(partial_body) THEN len - Len(partial_body) ELSE 0) :
                 k \in keys_matching(req.map, S_content_type)}
    ELSE {Ctl("route", "", req, alive, <<>>, <<>>, 0, BodyNone)}

\* handle_incoming from the return of read_http_head to the next socket
\* operation: the set of continuations
after_head(head, possible_body) ==
    LET h == parse_header(head)
    IN  IF h.kind = "err" THEN {Rejected}
        ELSE IF h.kind = "panic" THEN {Panicked}
        ELSE UNION {
               IF hb.tag = "Bad" THEN {Rejected}
               ELSE IF hb.tag = "None"
               THEN {Ctl("route", "", h.req, alive, <<>>, <<>>, 0, BodyNone)}
               ELSE read_body(h.req, alive,
                              IF possible_body = <<>> THEN <<>> ELSE possible_body[1],
                              hb.len) :
               alive \in is_keep_alive(h.req.map), hb \in has_body(h.req.map)}

\* read_http_head_at with the initial body segment cut one byte too early
read_http_head_at_resending_a_byte(data, pos) ==
    IF pos # 0
    THEN IF is_utf8(SubSeq(data, 1, pos - 1))
         THEN [kind |-> "head", head |-> SubSeq(data, 1, pos - 1),
               possible_body |-> IF Len(data) > pos + 3
                                 THEN <<SubSeq(data, pos + 3, Len(data))>>
                                 ELSE <<>>]
         ELSE [kind |-> "fail", head |-> <<>>, possible_body |-> <<>>]
    ELSE IF Len(data) > max_header_size
    THEN [kind |-> "fail", head |-> <<>>, possible_body |-> <<>>]
    ELSE [kind |-> "more", head |-> <<>>, possible_body |-> <<>>]

\* one stream.read of read_http_head on the bytes data = read_buffs[..total],
\* pos being the position find_double_crlf returns (0 for not found): kind
\* "more" to read again, "fail" for Err, "head" with the head and the initial
\* body segment
read_http_head_at(data, pos) ==
    IF pos # 0
    THEN IF is_utf8(SubSeq(data, 1, pos - 1))
         THEN [kind |-> "head", head |-> SubSeq(data, 1, pos - 1),
               possible_body |-> IF Len(data) > pos + 3
                                 THEN <<SubSeq(data, pos + 4, Len(data))>>
                                 ELSE <<>>]
         ELSE [kind |-> "fail", head |-> <<>>, possible_body |-> <<>>]
    ELSE IF Len(data) > max_header_size
    THEN [kind |-> "fail", head |-> <<>>, possible_body |-> <<>>]
    ELSE [kind |-> "more", head |-> <<>>, possible_body |-> <<>>]

read_http_head(data) == read_http_head_at(data, find_double_crlf(data))

\* the sizes a stream.read into a buffer of `space` bytes can return: 0 only
\* when the peer has closed and nothing is left
read_sizes(space) ==
    IF Min(space, Len(wire)) = 0 THEN {0} ELSE 1..Min(space, Len(wire))

SetCtl(c) ==
    /\ pc' = c.pc
    /\ result' = c.result
    /\ request' = c.request
    /\ need_alive' = c.need_alive
    /\ body_type' = c.body_type
    /\ container' = c.container
    /\ need_read_size' = c.need_read_size
    /\ body' = c.body

\* ------------------------------------------------------------------------
\* Actions
\* ------------------------------------------------------------------------

\* the client, having received a response, sends its next request
ClientSend ==
    /\ pc = "read_head" /\ nreq > 1 /\ read_buffs = <<>> /\ wire = <<>>
    /\ sent < MaxReqs
    /\ \E r \in NextRequests : wire' = r
    /\ sent' = sent + 1
    /\ UNCHANGED <<pc, read_buffs, cap, nreq, head_content, request, need_alive,
                   body_type, container, need_read_size, body, response, out, result,
                   handled, written, chunk_size, ops_bound, router_map,
                   invoked,
                   mp, upload_directory, posted, pool, writer>>

\* one stream.read of read_http_head fails (timeout, reset); the socket is
\* shut down and what the client sent is lost
ReadHeadError ==
    /\ pc = "read_head"
    /\ SetCtl(Rejected)
    /\ read_buffs' = <<>> /\ cap' = 0 /\ head_content' = <<>>
    /\ wire' = <<>>
    /\ UNCHANGED <<sent, nreq, response, out, handled, written, chunk_size,
                   ops_bound, router_map,
                   invoked,
                   mp, upload_directory, posted, pool, writer>>

\* one stream.read of read_http_head returns, and handle_incoming runs up to
\* its next socket operation
ReadHead ==
    /\ pc = "read_head"
    /\ \E n \in read_sizes(cap - Len(read_buffs)) :
        \E data \in {read_buffs \o SubSeq(wire, 1, n)} :
         \E r \in {read_http_head(data)} :
             /\ IF n = 0 \/ r.kind = "fail"
                THEN /\ SetCtl(Rejected)
                     /\ read_buffs' = <<>> /\ cap' = 0 /\ head_content' = <<>>
                     /\ wire' = <<>>
                ELSE IF r.kind = "more"
                THEN /\ read_buffs' = data
                     /\ cap' = cap + read_buff_increase_size
                     /\ wire' = SubSeq(wire, n + 1, Len(wire))
                     /\ UNCHANGED <<pc, result, request, need_alive, body_type,
                                    container, need_read_size, body, head_content>>
                ELSE /\ \E c \in after_head(r.head, r.possible_body) :
                          /\ SetCtl(c)
                          /\ wire' = IF c.pc \in {"closed", "panicked"} THEN <<>>
                                     ELSE SubSeq(wire, n + 1, Len(wire))
                     /\ read_buffs' = <<>> /\ cap' = 0
                     /\ head_content' = r.head
    /\ UNCHANGED <<sent, nreq, response, out, handled, written, chunk_size, ops_bound, router_map,
                   invoked,
                   mp, upload_directory, posted, pool, writer>>

\* one stream.read of the body loop of read_body_according_to_type fails or
\* returns 0: BodyContent::Bad
ReadBodyError ==
    /\ pc = "read_body"
    /\ SetCtl(Rejected)
    /\ UNCHANGED <<wire, sent, read_buffs, cap, nreq, head_content, response, out,
                   handled, written, chunk_size, ops_bound, router_map,
                   invoked,
                   mp, upload_directory, posted, pool, writer>>

\* one stream.read of the body loop returns n > 0 bytes
ReadBody ==
    /\ pc = "read_body" /\ wire # <<>>
    /\ \E n \in 1..Min(need_read_size, Len(wire)) :
         /\ wire' = SubSeq(wire, n + 1, Len(wire))
         /\ IF need_read_size - n = 0
            THEN SetCtl(body_complete(request, need_alive, body_type,
                                      container \o SubSeq(wire, 1, n)))
            ELSE /\ container' = container \o SubSeq(wire, 1, n)
                 /\ need_read_size' = need_read_size - n
                 /\ UNCHANGED <<pc, result, request, need_alive, body_type, body>>
    /\ UNCHANGED <<sent, read_buffs, cap, nreq, head_content, response, out, handled,
                   written, chunk_size, ops_bound, router_map,
                   invoked,
                   mp, upload_directory, posted, pool, writer>>

\* construct_http_event up to the writer: the Response is built, do_router
\* selects the entry and the middlewares/handler run
Dispatch ==
    /\ pc = "route"
    /\ \E sel \in do_router(router_map, request) :
         \E o \in do_router_call(
                     router_map, sel, request,
                     new_response(request.method, request.version, request.map),
                     ops_bound) :
            /\ response' = o.res
            /\ pc' = IF o.panic THEN "panicked" ELSE "write"
            /\ result' = IF o.panic THEN "panic" ELSE ""
            /\ invoked' = [key |-> sel.key, via |-> sel.via, calls |-> o.calls]
            /\ out' = [out EXCEPT !.raw = o.raw]
    /\ handled' = handled \cup {nreq}
    /\ UNCHANGED <<wire, sent, read_buffs, cap, nreq, head_content, request,
                   need_alive, body_type, container, need_read_size, body,
                   written, chunk_size, ops_bound, router_map,
                   mp, upload_directory, posted, pool, writer>>

\* the writer of construct_http_event: write_once or write_chunk.  Of the
\* stream.write calls the first j succeed; j = Len(o.writes) + 1 is the
\* complete response.
WriteResponse ==
    /\ pc = "write"
    /\ \E overflow_checks \in BOOLEAN :
        \E o \in (IF ~response.chunked
                  THEN write_once(response, chunk_size, overflow_checks)
                  ELSE write_chunk(response, chunk_size, overflow_checks)) :
           /\ response' = o.res
           /\ IF o.kind = "panic"
              THEN pc' = "panicked" /\ result' = "panic" /\ out' = out
                   /\ written' = written
              ELSE IF o.kind = "err"
              THEN pc' = "wrote" /\ result' = "body_error" /\ out' = out
                   /\ written' = written
              ELSE \E j \in 0..(Len(o.writes) + 1) :
                     /\ pc' = "wrote"
                     /\ out' = [sent_header |-> j >= 1,
                                header |-> IF j >= 1 THEN o.header ELSE NoHeader,
                                writes |-> SubSeq(o.writes, 1, j - 1),
                                raw |-> out.raw]
                     /\ result' = IF j = Len(o.writes) + 1 THEN "ok" ELSE "io_error"
                     /\ written' = IF j = Len(o.writes) + 1
                                   THEN Append(written, nreq) ELSE written
    /\ UNCHANGED <<wire, sent, read_buffs, cap, nreq, head_content, request,
                   need_alive, body_type, container, need_read_size, body, handled,
                   chunk_size, ops_bound, router_map,
                   invoked,
                   mp, upload_directory, posted, pool, writer>>

\* the end of the loop body of handle_incoming: `continue 'Back` when again
\* holds, `break` otherwise
loop_end(again) ==
    /\ pc = "wrote"
    /\ IF again
       THEN /\ pc' = "read_head"
            /\ nreq' = nreq + 1
            /\ read_buffs' = <<>>
            /\ cap' = read_buff_increase_size
            /\ out' = NoOut
            /\ result' = ""
       ELSE /\ pc' = "closed"
            /\ UNCHANGED <<nreq, read_buffs, cap, out, result>>
    /\ head_content' = <<>>
    /\ request' = NoRequest /\ need_alive' = FALSE /\ body_type' = <<>>
    /\ container' = <<>> /\ need_read_size' = 0 /\ body' = BodyNone
    /\ response' = NoResponse
    /\ invoked' = NoInvocation
    /\ UNCHANGED <<wire, sent, handled, written, chunk_size, ops_bound, router_map,
                   mp, upload_directory, posted, pool, writer>>

\* `if need_alive && r { continue 'Back; } else { break; }`
LoopEnd == loop_end(need_alive /\ result = "ok")

\* ------------------------------------------------------------------------
\* Specifications
\* ------------------------------------------------------------------------

\* a worker takes an accepted connection on which the client has sent its
\* first request
Init ==
    /\ wire \in FirstRequests
    /\ sent = 1
    /\ pc = "read_head"
    /\ read_buffs = <<>>
    /\ cap = read_buff_increase_size
    /\ nreq = 1
    /\ head_content = <<>>
    /\ request = NoRequest /\ need_alive = FALSE /\ body_type = <<>>
    /\ container = <<>> /\ need_read_size = 0 /\ body = BodyNone
    /\ response = NoResponse
    /\ out = NoOut
    /\ result = ""
    /\ handled = {}
    /\ written = <<>>
    /\ chunk_size = 4
    /\ ops_bound = DriverOps
    /\ router_map = ServerRouter
    /\ invoked = NoInvocation
    /\ mp = NoMp /\ upload_directory = <<>> /\ posted = NoForm /\ pool = NoPool /\ writer = NoWriter

Next ==
    \/ ClientSend
    \/ ReadHeadError
    \/ ReadHead
    \/ ReadBodyError
    \/ ReadBody
    \/ Dispatch
    \/ WriteResponse
    \/ LoopEnd

Spec == Init /\ [][Next]_vars

\* the response builder and writer on their own: construct_http_event is
\* entered with a parsed request without body; handlers make up to MaxOps
\* builder calls
InitWriter ==
    /\ wire = <<>>
    /\ sent = 1
    /\ pc = "route"
    /\ read_buffs = <<>>
    /\ cap = 0
    /\ nreq = 1
    /\ head_content \in WriterHeads
    /\ request = parse_header(head_content).req
    /\ need_alive \in is_keep_alive(request.map)
    /\ body_type = <<>>
    /\ container = <<>> /\ need_read_size = 0 /\ body = BodyNone
    /\ response = NoResponse
    /\ out = NoOut
    /\ result = ""
    /\ handled = {}
    /\ written = <<>>
    /\ chunk_size \in ChunkSizes
    /\ ops_bound = MaxOps
    /\ router_map = ServerRouter
    /\ invoked = NoInvocation
    /\ mp = NoMp /\ upload_directory = <<>> /\ posted = NoForm /\ pool = NoPool /\ writer = NoWriter

NextWriter ==
    \/ Dispatch
    \/ WriteResponse

SpecWriter == InitWriter /\ [][NextWriter]_vars

\* ------------------------------------------------------------------------
\* Properties of the connection driver (specification Spec)
\* ------------------------------------------------------------------------

\* the responses written completely are those of iterations 1, 2, ... in this
\* order, and whenever the driver reads, routes or writes for request
\* k = nreq, the responses to all of the requests 1..k-1 are complete
responses_in_order ==
    /\ written = [i \in 1..Len(written) |-> i]
    /\ Len(written) \in {nreq - 1, nreq}
    /\ (pc \in {"read_head", "read_body", "route", "write"} => Len(written) = nreq - 1)

\* in a step of read_http_head: what the stream.read calls of this iteration
\* have taken from the socket, the read of this step included
read_with_head == read_buffs \o SubSeq(wire, 1, Len(wire) - Len(wire'))

\* a step of read_http_head that completes the head of request k and lets the
\* driver go on with it has taken no byte behind the end of request k (its
\* head, the terminator and Content-Length bytes of body), that is no byte of
\* the head of request k+1, whose turn comes after the response to request k
no_read_ahead ==
    (pc = "read_head" /\ pc' \in {"route", "read_body", "multipart"}) =>
        \A hb \in has_body(request'.map) :
            Len(read_with_head) <= Len(head_content') + Len(CRLF) + Len(CRLF) + hb.len

\* C1: on one connection the exchanges are strictly sequential: for every k
\* the response to request k is completely written to the socket before any
\* byte of the head of request k+1 is read, and the responses are emitted in
\* request order.
C1_Sequential == []responses_in_order /\ [][no_read_ahead]_vars

\* the header lines of a head, as sent
sent_header_lines(head) ==
    IF Find(head, CRLF) = 0 THEN <<>>
    ELSE split(SubSeq(head, Find(head, CRLF) + 2, Len(head)), CRLF)

\* the request carries a Connection header (any letter case) whose value is
\* keep-alive (any letter case)
carries_keep_alive(head) ==
    \E i \in 1..Len(sent_header_lines(head)) :
        LET kv == split_once(sent_header_lines(head)[i], <<":">>)
        IN  /\ kv # <<>>
            /\ to_lowercase(trim(kv[1])) = S_connection
            /\ to_lowercase(trim(kv[2])) = S_keep_alive

\* C2: after the writer has returned, the driver reads another request if and
\* only if the request carried Connection: keep-alive (name and value in any
\* letter case) and the response was written completely; otherwise the
\* connection is closed.
C2_KeepAliveIff ==
    [][pc = "wrote" =>
        /\ pc' \in {"read_head", "closed"}
        /\ (pc' = "read_head") <=> (carries_keep_alive(head_content) /\ result = "ok")]_vars

\* C3: a request rejected while it is read ends the loop: the connection is
\* closed, do_router has not run for it and no byte has been written for it.
C3_RejectedSilently ==
    result = "rejected" =>
        /\ pc = "closed"
        /\ nreq \notin handled
        /\ out = NoOut
        /\ Len(written) = nreq - 1

\* a request is rejected after its head was parsed (Content-Length or body)
C3_Witness == pc = "closed" /\ result = "rejected" /\ head_content # <<>>

\* C4: a head, terminator included, longer than max_header_size is never
\* accepted: the connection is closed and nothing is written.
C4_LongHeadFails ==
    Len(head_content) + Len(double_crlf) > max_header_size =>
        pc = "closed" /\ out = NoOut

\* C5: the connection driver never panics.
C5_NeverPanics == pc # "panicked"

\* ------------------------------------------------------------------------
\* Properties of the response writer (specification SpecWriter)
\* ------------------------------------------------------------------------

\* the header block that was written holds the line `k: v`
emitted(k, v) == header_line(k, v) \in out.header.headers

\* the names of the header lines that were written
emitted_names == {split_once(l, <<":">>)[1] : l \in out.header.headers}

\* the status line that was written is that of code
emitted_status(code) ==
    out.header.status_line = request.version \o <<" ">> \o get_httpstatus_from_code(code)[1]

\* C6: a response whose body is None at write time (single-shot mode) is
\* emitted with Content-length: 0, with status 200 unless the handler set
\* another one, and without body bytes.
C6_NoBodyLengthZero ==
    (pc = "wrote" /\ out.sent_header /\ ~response.chunked /\ response.body.tag = "None") =>
        /\ emitted(S_Content_length, <<"0">>)
        /\ emitted_status(response.http_state)
        /\ out.writes = <<>>

\* C7: a response emitted in chunked mode carries Transfer-Encoding: chunked,
\* carries no Content-length header in any letter case, and its last write is
\* 0\r\n\r\n, whatever builder calls the handler made.
C7_ChunkedHeaders ==
    (pc = "wrote" /\ result = "ok" /\ response.chunked) =>
        /\ emitted(S_Transfer_Encoding, S_chunked)
        /\ \A k \in emitted_names : to_lowercase(k) # S_content_length
        /\ out.writes # <<>>
        /\ out.writes[Len(out.writes)] = <<"0", "\r", "\n", "\r", "\n">>

\* the value of a string of upper-case hexadecimal digits
HexVal(c) == (CHOOSE i \in 1..16 : HexDigits[i] = c) - 1

RECURSIVE HexValue(_, _)
HexValue(s, acc) ==
    IF s = <<>> THEN acc ELSE HexValue(Tail(s), acc * 16 + HexVal(Head(s)))

\* a client decoding a chunked body: ok tells whether bytes is a sequence of
\* frames SIZE \r\n DATA \r\n closed by 0\r\n\r\n, frames are the DATA parts
RECURSIVE decode_chunks(_)
decode_chunks(bytes) ==
    LET p == Find(bytes, CRLF)
        size_text == SubSeq(bytes, 1, p - 1)
        n == HexValue(size_text, 0)
        rest == SubSeq(bytes, p + 2, Len(bytes))
    IN  IF p <= 1 \/ \E i \in 1..Len(size_text) : \A j \in 1..16 : HexDigits[j] # size_text[i]
        THEN [ok |-> FALSE, frames |-> <<>>]
        ELSE IF n = 0
        THEN [ok |-> rest = CRLF, frames |-> <<>>]
        ELSE IF Len(rest) < n + 2 \/ SubSeq(rest, n + 1, n + 2) # CRLF
        THEN [ok |-> FALSE, frames |-> <<>>]
        ELSE [ok |-> decode_chunks(SubSeq(rest, n + 3, Len(rest))).ok,
              frames |-> <<SubSeq(rest, 1, n)>>
                            \o decode_chunks(SubSeq(rest, n + 3, Len(rest))).frames]

\* the window [start, end] a Range(s, e) stands for on a body of size bytes:
\* (s, e) is [s, e], (s, -) is [s, size-1], (-, e) is the last e bytes
resolved_window(range, size) ==
    IF range.s # <<>>
    THEN [start |-> range.s[1], end |-> IF range.e # <<>> THEN range.e[1] ELSE size - 1]
    ELSE IF range.e # <<>>
    THEN [start |-> size - range.e[1], end |-> size - 1]
    ELSE [start |-> 1, end |-> 0]

\* start <= end < size
satisfiable(w, size) == 0 <= w.start /\ w.start <= w.end /\ w.end < size

\* the bytes the client is to receive: the body, or its window
expected_body(res) ==
    IF res.range.tag = "None" THEN body_bytes(res)
    ELSE SubSeq(body_bytes(res),
                resolved_window(res.range, Len(body_bytes(res))).start + 1,
                resolved_window(res.range, Len(body_bytes(res))).end + 1)

\* C8: a chunked response to a request other than HEAD, written completely,
\* is a sequence of frames SIZE-IN-HEX \r\n DATA \r\n closed by 0\r\n\r\n;
\* every frame holds between 1 and chunk_size bytes, and the DATA parts
\* together are the body (or its range window).
C8_ChunkFraming ==
    (pc = "wrote" /\ result = "ok" /\ response.chunked /\ request.method # S_HEAD) =>
        /\ decode_chunks(concat(out.writes)).ok
        /\ \A i \in 1..Len(decode_chunks(concat(out.writes)).frames) :
              /\ Len(decode_chunks(concat(out.writes)).frames[i]) >= 1
              /\ Len(decode_chunks(concat(out.writes)).frames[i]) <= chunk_size
        /\ concat(decode_chunks(concat(out.writes)).frames) = expected_body(response)

\* 'hello world' with chunk_size 4 has been written as frames of 4, 4 and 3 bytes
C8_Witness ==
    /\ pc = "wrote" /\ result = "ok" /\ response.chunked /\ chunk_size = 4
    /\ concat(out.writes) =
          <<"4", "\r", "\n", "h", "e", "l", "l", "\r", "\n",
            "4", "\r", "\n", "o", " ", "w", "o", "\r", "\n",
            "3", "\r", "\n", "r", "l", "d", "\r", "\n",
            "0", "\r", "\n", "\r", "\n">>

\* C9: for a HEAD request the writer writes the header block only, whatever
\* body, chunked flag or range the handler chose.
C9_HeadNoBody ==
    (pc = "wrote" /\ request.method = S_HEAD) => out.writes = <<>>

\* the header block of a HEAD response whose handler chose a body was written
C9_Witness ==
    /\ pc = "wrote" /\ request.method = S_HEAD /\ out.sent_header
    /\ response.body.tag \in {"Memory", "File"}

\* C10: with range mode on for a request other than HEAD, a window with
\* start <= end < size is answered with status 206, Content-Range: bytes
\* start-end/size, a content length of end-start+1 when not chunked, and
\* exactly the bytes of the window.
C10_SatisfiableRange ==
    [][(/\ pc = "write" /\ response.method # S_HEAD /\ response.range.tag = "Range"
        /\ take_body_size(response) # <<>>
        /\ satisfiable(resolved_window(response.range, take_body_size(response)[1]),
                       take_body_size(response)[1])) =>
          LET size == take_body_size(response)[1]
              w == resolved_window(response.range, size)
          IN  /\ result' \in {"ok", "io_error"}
              /\ out'.sent_header =>
                    /\ emitted_status(206)'
                    /\ emitted(S_Content_Range, content_range_value(w.start, w.end, size))'
                    /\ ~response.chunked =>
                          emitted(S_Content_Length, to_string(w.end - w.start + 1))'
              /\ (result' = "ok" /\ ~response.chunked) =>
                    concat(out'.writes) = SubSeq(body_bytes(response), w.start + 1, w.end + 1)
      ]_vars

\* a Range with at least one bound whose window on a body of size bytes is
\* not start <= end < size
unsatisfiable(range, size) ==
    /\ range.tag = "Range"
    /\ range.s # <<>> \/ range.e # <<>>
    /\ ~satisfiable(resolved_window(range, size), size)

\* C11: with range mode on, a range that a non-empty body cannot satisfy is answered:
\* the writer does not fail, and the header block it writes has status 416
\* and is followed by no body bytes (in chunked mode by nothing but the
\* closing 0\r\n\r\n), so that a keep-alive connection goes on.
C11_Unsatisfiable416 ==
    [][(/\ pc = "write" /\ response.method # S_HEAD
        /\ take_body_size(response) # <<>> /\ take_body_size(response)[1] > 0
        /\ unsatisfiable(response.range, take_body_size(response)[1])) =>
          /\ result' \in {"ok", "io_error"}
          /\ out'.sent_header => emitted_status(416)'
          /\ result' = "ok" =>
                concat(out'.writes) \in {<<>>, <<"0", "\r", "\n", "\r", "\n">>}
      ]_vars

\* the body a client takes from the writes after the header block: the writes
\* themselves, or the frames of a chunked body
decode_body(is_chunked, writes) ==
    IF is_chunked THEN decode_chunks(concat(writes)).frames ELSE writes

\* ------------------------------------------------------------------------
\* Range resolution on its own (specification SpecRange)
\* ------------------------------------------------------------------------

\* largest body explored
MaxRangeBody == 4

\* the bounds parse_range_content can hand to the writer: None, or Some(k)
RangeBounds == {<<>>} \cup {<<k>> : k \in 0..(MaxRangeBody + 1)}

\* the writer is entered with the Response a handler left after
\* write_binary(body) and enable_range(), chunked() or not, for a GET request
\* whose Range header parsed to (s, e)
InitRange ==
    /\ wire = <<>>
    /\ sent = 1
    /\ pc = "write"
    /\ read_buffs = <<>>
    /\ cap = 0
    /\ nreq = 1
    /\ head_content = HeadGet
    /\ request = parse_header(head_content).req
    /\ need_alive \in is_keep_alive(request.map)
    /\ body_type = <<>>
    /\ container = <<>> /\ need_read_size = 0 /\ body = BodyNone
    /\ \E n \in 0..MaxRangeBody, s \in RangeBounds, e \in RangeBounds :
         LET res == [write_binary(new_response(request.method, request.version,
                                               request.map),
                                  SubSeq(Bytes10, 1, n))
                        EXCEPT !.range = Range(s, e)]
         IN  response \in {res} \cup chunked(res)
    /\ out = NoOut
    /\ result = ""
    /\ handled = {1}
    /\ written = <<>>
    /\ chunk_size \in ChunkSizes
    /\ ops_bound = 0
    /\ router_map = ServerRouter
    /\ invoked = [key |-> RouteGetRoot, via |-> "exact",
                  calls |-> <<Call("router", TRUE)>>]
    /\ mp = NoMp /\ upload_directory = <<>> /\ posted = NoForm /\ pool = NoPool /\ writer = NoWriter

NextRange == WriteResponse

SpecRange == InitRange /\ [][NextRange]_vars

\* C12: at write time (s, e) resolves to [s, e], (s, -) to [s, size-1] and
\* (-, e) to [size-e, size-1]: a window with start <= end < size is written
\* with status 206 and exactly its bytes; every other window, a suffix longer
\* than the body and any range on an empty body included, leaves the response
\* with status 416 and no body, and nothing else happens.
C12_RangeResolution ==
    [][(pc = "write" /\ (response.range.s # <<>> \/ response.range.e # <<>>)) =>
          LET size == take_body_size(response)[1]
              w == resolved_window(response.range, size)
          IN  IF satisfiable(w, size)
              THEN /\ result' \in {"ok", "io_error"}
                   /\ response'.http_state = 206
                   /\ result' = "ok" =>
                         concat(decode_body(response.chunked, out'.writes)) =
                             SubSeq(body_bytes(response), w.start + 1, w.end + 1)
              ELSE /\ pc' # "panicked"
                   /\ response'.http_state = 416
                   /\ response'.body.tag = "None"
                   /\ out'.writes = <<>>
      ]_vars

\* C13: when enable_range found a Range header that gives neither a start
\* nor an end, the response is written as without range: the writer does not
\* fail, the status is the handler's, there is no Content-Range header and
\* the body is written whole.
C13_NoBoundsNoRange ==
    [][(/\ pc = "write" /\ response.method # S_HEAD
        /\ response.range.tag = "Range"
        /\ response.range.s = <<>> /\ response.range.e = <<>>
        /\ take_body_size(response) # <<>>) =>
          /\ result' \in {"ok", "io_error"}
          /\ out'.sent_header =>
                /\ emitted_status(response.http_state)'
                /\ \A k \in emitted_names' : to_lowercase(k) # to_lowercase(S_Content_Range)
          /\ result' = "ok" =>
                concat(decode_body(response.chunked, out'.writes)) = body_bytes(response)
      ]_vars

\* ------------------------------------------------------------------------
\* Registration, run() and routing (specification SpecRouter)
\* ------------------------------------------------------------------------

HeadRoot ==
    <<"G","E","T"," ","/"," ","H","T","T","P","/","1",".","1","\r","\n","H","o","s","t",":"," ",
      "x">>

HeadRootId1 ==
    <<"G","E","T"," ","/","?","i","d","=","1"," ","H","T","T","P","/","1",".","1","\r","\n","H",
      "o","s","t",":"," ","x">>

HeadWildXY ==
    <<"G","E","T"," ","/","w","i","l","d","c","a","r","d","/","x","/","y"," ","H","T","T","P",
      "/","1",".","1","\r","\n","H","o","s","t",":"," ","x">>

HeadWildXId1 ==
    <<"G","E","T"," ","/","w","i","l","d","c","a","r","d","/","x","?","i","d","=","1"," ","H",
      "T","T","P","/","1",".","1","\r","\n","H","o","s","t",":"," ","x">>

HeadWildXId2 ==
    <<"G","E","T"," ","/","w","i","l","d","c","a","r","d","/","x","?","b","=","2","&","i","d",
      "=","2"," ","H","T","T","P","/","1",".","1","\r","\n","H","o","s","t",":"," ","x">>

HeadWildcardx ==
    <<"G","E","T"," ","/","w","i","l","d","c","a","r","d","x"," ","H","T","T","P","/","1",".",
      "1","\r","\n","H","o","s","t",":"," ","x">>

HeadWildcardNoSlash ==
    <<"G","E","T"," ","/","w","i","l","d","c","a","r","d"," ","H","T","T","P","/","1",".","1",
      "\r","\n","H","o","s","t",":"," ","x">>

HeadOther ==
    <<"G","E","T"," ","/","o","t","h","e","r"," ","H","T","T","P","/","1",".","1","\r","\n","H",
      "o","s","t",":"," ","x">>

HeadHeadWildX ==
    <<"H","E","A","D"," ","/","w","i","l","d","c","a","r","d","/","x"," ","H","T","T","P","/",
      "1",".","1","\r","\n","H","o","s","t",":"," ","x">>

\* heads of the requests routed
RouterHeads ==
    {HeadRoot, HeadRootId1, HeadWildXY, HeadWildXId1, HeadWildXId2,
     HeadWildcardx, HeadWildcardNoSlash, HeadOther, HeadHeadWildX}

S_GET ==
    <<"G","E","T">>

S_PathRoot ==
    <<"/">>

S_PathWildcard ==
    <<"/","w","i","l","d","c","a","r","d","/","*">>

S_PathWildX ==
    <<"/","w","i","l","d","c","a","r","d","/","x">>

S_PathRootWildcard ==
    <<"/","*">>

\* the registrations an application makes before run(): methods, paths and
\* middleware chains explored
RegMethods == {<<S_GET>>, <<S_GET, S_HEAD>>}
RegPaths == {S_PathRoot, S_PathWildcard, S_PathWildX, S_PathRootWildcard}
MiddleWareChains ==
    {<<>>, <<"middleware1", "interrupt_one">>, <<"add_header", "interrupt_one", "add_header">>}
RegValues ==
    {RouterValue(<<>>, "handler")} \cup
    {RouterValue(<<chain>>, "handler") : chain \in MiddleWareChains}
MaxRoutes == 2

\* HttpServer::route(methods, path).reg(f) or .reg_with_middlewares(m, f);
\* route() panics for the wildcard of the root path
Reg ==
    /\ pc = "config"
    /\ Cardinality(DOMAIN router_map \ {S_NEVER_FOUND_FOR_ALL}) < MaxRoutes
    /\ \E methods \in RegMethods, path \in RegPaths, value \in RegValues :
         IF trim(path) = S_PathRootWildcard
         THEN pc' = "panicked" /\ result' = "panic" /\ UNCHANGED router_map
         ELSE /\ router_map' = reg(router_map, methods, path, value)
              /\ router_map' # router_map
              /\ UNCHANGED <<pc, result>>
    /\ UNCHANGED <<wire, sent, read_buffs, cap, nreq, head_content, request,
                   need_alive, body_type, container, need_read_size, body, response,
                   out, handled, written, chunk_size, ops_bound, invoked,
                   mp, upload_directory, posted, pool, writer>>

\* HttpServer::set_not_found(f) with an application closure
SetNotFound ==
    /\ pc = "config"
    /\ S_NEVER_FOUND_FOR_ALL \notin DOMAIN router_map
    /\ router_map' = set_not_found(router_map, "handler")
    /\ UNCHANGED <<pc, wire, sent, read_buffs, cap, nreq, head_content, request,
                   need_alive, body_type, container, need_read_size, body, response,
                   out, result, handled, written, chunk_size, ops_bound, invoked,
                   mp, upload_directory, posted, pool, writer>>

\* HttpServer::run(): the default not-found entry is installed if none is
\* registered; then, when TcpListener::bind and create_directory succeeded,
\* the router map is frozen and a worker reaches construct_http_event with
\* the parsed request; when one of them failed, run() panics
Run ==
    /\ pc = "config"
    /\ router_map' = not_found_default_if_not_set(router_map)
    /\ \E listening \in BOOLEAN :
         /\ pc' = IF listening THEN "route" ELSE "panicked"
         /\ result' = IF listening THEN result ELSE "panic"
    /\ UNCHANGED <<wire, sent, read_buffs, cap, nreq, head_content, request,
                   need_alive, body_type, container, need_read_size, body, response,
                   out, handled, written, chunk_size, ops_bound, invoked,
                   mp, upload_directory, posted, pool, writer>>

\* an HttpServer after create(), and the request a client will send it
InitRouter ==
    /\ wire = <<>>
    /\ sent = 1
    /\ pc = "config"
    /\ read_buffs = <<>>
    /\ cap = 0
    /\ nreq = 1
    /\ head_content \in RouterHeads
    /\ request = parse_header(head_content).req
    /\ need_alive \in is_keep_alive(request.map)
    /\ body_type = <<>>
    /\ container = <<>> /\ need_read_size = 0 /\ body = BodyNone
    /\ response = NoResponse
    /\ out = NoOut
    /\ result = ""
    /\ handled = {}
    /\ written = <<>>
    /\ chunk_size = 16
    /\ ops_bound = DriverOps
    /\ router_map = EmptyMap
    /\ invoked = NoInvocation
    /\ mp = NoMp /\ upload_directory = <<>> /\ posted = NoForm /\ pool = NoPool /\ writer = NoWriter

NextRouter ==
    \/ Reg
    \/ SetNotFound
    \/ Run
    \/ Dispatch
    \/ WriteResponse

SpecRouter == InitRouter /\ [][NextRouter]_vars

\* ------------------------------------------------------------------------
\* Properties of routing (specification SpecRouter)
\* ------------------------------------------------------------------------

\* the query strings a request for the same path may carry: none, one
\* parameter, two parameters, a second '?'
Queries ==
    {<<>>, <<"?","a","=","1">>, <<"?","i","d","=","1","&","b","=","2">>, <<"?","?">>}

\* the part of a URL before its first '?'
RECURSIVE path_of(_)
path_of(url) ==
    IF url = <<>> \/ Head(url) = "?" THEN <<>>
    ELSE <<Head(url)>> \o path_of(Tail(url))

\* the URL as it stands in the request line of a head: the text between the
\* first and the second space
raw_url(head) ==
    LET sp1 == Find(head, <<" ">>)
        rest == SubSeq(head, sp1 + 1, Len(head))
    IN  SubSeq(rest, 1, Find(rest, <<" ">>) - 1)

\* C14: the entry a request is dispatched to is the one any request with the
\* same method and the same path before the first '?' is dispatched to,
\* whatever its query string; an exact entry has the key method + path; the
\* closures are handed the request with its full raw URL.
C14_RoutingKey ==
    invoked.via # "" =>
      /\ request.url = raw_url(head_content)
      /\ invoked.via = "exact" => invoked.key = request.method \o path_of(request.url)
      /\ \A q \in Queries :
           Selected(invoked.key, invoked.via) \in
             do_router(router_map, [request EXCEPT !.url = path_of(request.url) \o q])

\* a request with a query string has been dispatched to the entry registered
\* for its path
C14_Witness ==
    /\ invoked.via = "exact"
    /\ Find(request.url, <<"?">>) # 0
    /\ "router" \in {invoked.calls[i].f : i \in DOMAIN invoked.calls}

\* the number of calls of Router::call among the closures called
router_calls(calls) == Cardinality({i \in DOMAIN calls : calls[i].f = "router"})

\* C15: for the key K of a request, the entry registered under exactly K is
\* invoked if there is one, even when wildcard entries match K too; otherwise
\* a wildcard entry matching K; otherwise the entry NEVER_FOUND_FOR_ALL; one
\* entry is invoked per request and its router is called at most once.
C15_LookupOrder ==
    invoked.via # "" =>
      LET K == request.method \o path_of(request.url)
          wild == {k \in DOMAIN router_map : wildcard_match(k, K)}
      IN  /\ invoked.key \in DOMAIN router_map
          /\ invoked.key = K <=> K \in DOMAIN router_map
          /\ invoked.via = "exact" <=> K \in DOMAIN router_map
          /\ K \notin DOMAIN router_map /\ wild # {} =>
               invoked.key \in wild /\ invoked.via = "wildcard"
          /\ K \notin DOMAIN router_map /\ wild = {} =>
               invoked.key = S_NEVER_FOUND_FOR_ALL /\ invoked.via = "not_found"
          /\ router_calls(invoked.calls) <= 1
          /\ router_map[invoked.key].middlewares = <<>> =>
               invoked.calls = <<Call("router", TRUE)>>

\* the exact entry has been invoked for a key that a registered wildcard
\* entry matches as well
C15_Witness ==
    /\ invoked.via = "exact"
    /\ \E k \in DOMAIN router_map : wildcard_match(k, invoked.key)
    /\ router_calls(invoked.calls) = 1

\* s begins with prefix
starts_with(s, prefix) ==
    Len(s) >= Len(prefix) /\ SubSeq(s, 1, Len(prefix)) = prefix

\* the wildcard entries M + P + "/*" of the router map that are registered
\* for a key: those for which the key begins with M + P + "/"
wildcards_for(router, K) ==
    {k \in DOMAIN router :
       /\ Len(k) >= 2
       /\ SubSeq(k, Len(k) - 1, Len(k)) = <<"/", "*">>
       /\ starts_with(K, SubSeq(k, 1, Len(k) - 1))}

\* C16: when no exact entry matches, the wildcard entry for M and P + "/*" is
\* selected exactly for the requests with method M whose path begins with
\* P + "/"; every other request falls through to the not-found entry.
C16_WildcardPrefix ==
    LET K == request.method \o path_of(request.url)
    IN  (invoked.via # "" /\ K \notin DOMAIN router_map) =>
          IF wildcards_for(router_map, K) # {}
          THEN invoked.via = "wildcard" /\ invoked.key \in wildcards_for(router_map, K)
          ELSE invoked.via = "not_found" /\ invoked.key = S_NEVER_FOUND_FOR_ALL

\* the middleware calls among the calls made: all of them but a final call of
\* the router
middleware_calls(calls) ==
    IF calls # <<>> /\ calls[Len(calls)].f = "router"
    THEN SubSeq(calls, 1, Len(calls) - 1) ELSE calls

\* the calls made for an entry with the chain m1..mn: the middlewares called are
\* m1..mk in registration order, each of them but the last having returned
\* true; the router is called, once and after them, iff all n were called and
\* returned true.
C17_ChainOrder ==
    (invoked.via \in {"exact", "wildcard"}
       /\ router_map[invoked.key].middlewares # <<>>) =>
      LET chain == router_map[invoked.key].middlewares[1]
          mws == middleware_calls(invoked.calls)
      IN  /\ Len(mws) <= Len(chain)
          /\ \A i \in DOMAIN mws : mws[i].f = chain[i]
          /\ \A i \in DOMAIN mws : i < Len(mws) => mws[i].r
          /\ \A i \in DOMAIN mws : mws[i].f # "router"
          /\ router_calls(invoked.calls) =
               (IF Len(mws) = Len(chain) /\ \A i \in DOMAIN mws : mws[i].r THEN 1 ELSE 0)
          /\ Len(mws) < Len(chain) => ~mws[Len(mws)].r

\* one Response for the whole chain: what a middleware did to the Response is still there after
\* the chain: the header added by a middleware that returned true, and the
\* status and body set by the middleware that returned false.
C17_SameResponse ==
    pc = "write" =>
      /\ (\E i \in DOMAIN invoked.calls : invoked.calls[i].f = "add_header") =>
           /\ S_X_Middleware \in DOMAIN response.header_pair
           /\ response.header_pair[S_X_Middleware] = S_1
      /\ (invoked.calls # <<>> /\ ~invoked.calls[Len(invoked.calls)].r) =>
           /\ response.http_state = 400
           /\ body_bytes(response) \in {S_no_id, S_invalid_id}

\* C17: the middlewares of the matched entry run in registration order, the
\* first that returns false ends the chain without the handler, the handler
\* runs once iff all returned true, all work on one Response, and the Response
\* as the chain left it is what is written.
C17_MiddlewareChain ==
    /\ [](C17_ChainOrder /\ C17_SameResponse)
    /\ [][(pc = "write" /\ invoked.calls # <<>> /\ out'.sent_header) =>
            /\ emitted_status(response.http_state)'
            /\ \A k \in DOMAIN response.header_pair :
                 k # S_Content_length => emitted(k, response.header_pair[k])'
            /\ (result' = "ok" /\ response.method # S_HEAD) =>
                 concat(decode_body(response.chunked, out'.writes)) = body_bytes(response)
         ]_vars

\* a chain of three middlewares whose second returned false: the first two
\* were called, the third and the handler were not, and the response written
\* carries the header of the first and the status and body of the second
C17_Witness ==
    /\ pc = "wrote" /\ result = "ok"
    /\ Len(invoked.calls) = 2
    /\ invoked.calls[1] = Call("add_header", TRUE)
    /\ invoked.calls[2] = Call("interrupt_one", FALSE)
    /\ Len(router_map[invoked.key].middlewares[1]) = 3
    /\ emitted(S_X_Middleware, S_1)
    /\ emitted_status(400)
    /\ concat(out.writes) = S_invalid_id

\* run() has been called: the configuration phase is over and the worker did
\* not stop in a panic of route()
run_started == pc # "config" /\ ~(pc = "panicked" /\ invoked = NoInvocation)

\* C18: once run() has started the router map has an entry under
\* NEVER_FOUND_FOR_ALL and does not change any more; run() leaves a registered
\* not-found entry (and every other entry) as it is and otherwise adds the
\* default, whose response is status 404 without body.
C18_NotFoundEntry ==
    /\ [](run_started => S_NEVER_FOUND_FOR_ALL \in DOMAIN router_map)
    /\ [][(pc = "config" /\ pc' = "route") =>
            /\ \A k \in DOMAIN router_map : router_map'[k] = router_map[k]
            /\ DOMAIN router_map' = DOMAIN router_map \cup {S_NEVER_FOUND_FOR_ALL}
            /\ S_NEVER_FOUND_FOR_ALL \notin DOMAIN router_map =>
                 router_map'[S_NEVER_FOUND_FOR_ALL] = RouterValue(<<>>, "not_found_default")
         ]_vars
    /\ [][pc # "config" => router_map' = router_map]_vars
    /\ []((invoked.via = "not_found"
             /\ router_map[S_NEVER_FOUND_FOR_ALL].router = "not_found_default") =>
            /\ pc # "panicked"
            /\ response.http_state = 404 /\ response.body.tag = "None"
            /\ invoked.calls = <<Call("router", TRUE)>>
            /\ out.sent_header => emitted_status(404) /\ out.writes = <<>>)

\* no not-found handler was registered, a request matched no entry and the
\* default's 404 without body has been written
C18_Witness ==
    /\ pc = "wrote" /\ result = "ok"
    /\ invoked.via = "not_found"
    /\ router_map[S_NEVER_FOUND_FOR_ALL] = RouterValue(<<>>, "not_found_default")
    /\ emitted_status(404)
    /\ out.writes = <<>>

\* ------------------------------------------------------------------------
\* Body dispatch (specification SpecBody)
\* ------------------------------------------------------------------------

\* Content-Length: 0
ReqLengthZero ==
    <<"P","O","S","T"," ","/","p"," ","H","T","T","P","/","1",".","1","\r","\n","C","o","n","t",
      "e","n","t","-","L","e","n","g","t","h",":"," ","0","\r","\n","\r","\n">>

\* 3-byte url-encoded form; the request line is short so that the head can
\* be read within max_header_size
ReqForm ==
    <<"G","E","T"," ","/"," ","H","\r","\n","C","o","n","t","e","n","t","-","T","y","p","e",":",
      " ","a","p","p","l","i","c","a","t","i","o","n","/","x","-","w","w","w","-","f","o","r",
      "m","-","u","r","l","e","n","c","o","d","e","d","\r","\n","C","o","n","t","e","n","t","-",
      "L","e","n","g","t","h",":"," ","3","\r","\n","\r","\n","a","=","1">>

\* multipart body
ReqMultipart ==
    <<"G","E","T"," ","/"," ","H","\r","\n","C","o","n","t","e","n","t","-","T","y","p","e",":",
      " ","m","u","l","t","i","p","a","r","t","/","f","o","r","m","-","d","a","t","a",";"," ",
      "b","o","u","n","d","a","r","y","=","b","\r","\n","C","o","n","t","e","n","t","-","L","e",
      "n","g","t","h",":"," ","8","\r","\n","\r","\n","-","-","b","-","-","\r","\n","\r","\n">>

\* 2-byte text body followed by one more byte
ReqTextExtra ==
    <<"P","O","S","T"," ","/","p"," ","H","T","T","P","/","1",".","1","\r","\n","C","o","n","t",
      "e","n","t","-","T","y","p","e",":"," ","t","\r","\n","C","o","n","t","e","n","t","-","L",
      "e","n","g","t","h",":"," ","2","\r","\n","\r","\n","h","i","X">>

\* Content-Length: 2^64
ReqHugeLength ==
    <<"P","O","S","T"," ","/","p"," ","H","T","T","P","/","1",".","1","\r","\n","C","o","n","t",
      "e","n","t","-","L","e","n","g","t","h",":"," ","1","8","4","4","6","7","4","4","0","7",
      "3","7","0","9","5","5","1","6","1","6","\r","\n","\r","\n","a">>

\* the requests with which the body reader is explored
BodyRequests ==
    {ReqNoConnection, ReqBadLength, ReqLengthZero, ReqNoContentType, ReqText, ReqTextBad,
     ReqTooLarge, ReqForm, ReqMultipart, ReqTextExtra, ReqHugeLength}

\* the number of reads that filled the buffer of read_http_head without
\* showing it the terminator and without exceeding max_header_size
full_reads(msg) ==
    Min((find_double_crlf(msg) - 1) \div read_buff_increase_size,
        max_header_size \div read_buff_increase_size)

\* a worker has taken an accepted connection on which the client has sent one
\* request, and read_http_head has made full_reads(msg) reads that filled its
\* buffer
InitBody ==
    /\ \E msg \in BodyRequests :
         /\ read_buffs = SubSeq(msg, 1, full_reads(msg) * read_buff_increase_size)
         /\ wire = SubSeq(msg, full_reads(msg) * read_buff_increase_size + 1, Len(msg))
         /\ cap = (full_reads(msg) + 1) * read_buff_increase_size
    /\ sent = 1
    /\ pc = "read_head"
    /\ nreq = 1
    /\ head_content = <<>>
    /\ request = NoRequest /\ need_alive = FALSE /\ body_type = <<>>
    /\ container = <<>> /\ need_read_size = 0 /\ body = BodyNone
    /\ response = NoResponse
    /\ out = NoOut
    /\ result = ""
    /\ handled = {}
    /\ written = <<>>
    /\ chunk_size = 16
    /\ ops_bound = DriverOps
    /\ router_map = ServerRouter
    /\ invoked = NoInvocation
    /\ mp = NoMp /\ upload_directory = <<>> /\ posted = NoForm /\ pool = NoPool /\ writer = NoWriter


\* the head of this iteration parsed into a request, and the Content-Length
\* and Content-Type it carries
parsed_head == head_content # <<>> /\ parse_header(head_content).kind = "ok"
head_request == parse_header(head_content).req
content_lengths ==
    {parse_unsigned(head_request.map[k]) :
       k \in keys_matching(head_request.map, S_content_length)}
content_types ==
    {to_lowercase(head_request.map[k]) :
       k \in keys_matching(head_request.map, S_content_type)}

\* the request of this iteration was refused and no handler ran for it
never_handled == result = "rejected" /\ pc = "closed" /\ nreq \notin handled

\* C19: once the body reader has classified a request: without Content-Length
\* or with Content-Length 0 it goes to its handler with body None; with
\* Content-Length N > 0 and no Content-Type it is refused; with Content-Type
\* application/x-www-form-urlencoded what reaches the handler is a UrlForm;
\* with multipart/form-data it goes to the multipart parser, which hands a
\* Multi form to the handler or refuses the request; with any other
\* Content-Type what reaches the handler is a valid UTF-8 PureText of the N
\* body bytes.
C19_BodyDispatch ==
    (parsed_head /\ pc # "read_body") =>
      IF content_lengths = {} \/ content_lengths = {<<0>>}
      THEN result # "rejected" /\ pc # "multipart" /\ body = BodyNone
      ELSE \A cl \in content_lengths : cl # <<>> =>
             /\ content_types = {} => never_handled
             /\ \A ct \in content_types :
                  IF Contains(ct, S_multipart_form_data)
                  THEN pc = "multipart" \/ body.tag = "Multi" \/ never_handled
                  ELSE result = "rejected" \/
                       IF ct = S_x_www_form_urlencoded
                       THEN body.tag = "UrlForm"
                       ELSE /\ body.tag = "PureText"
                            /\ is_utf8(body.text)
                            /\ Len(body.text) = cl[1]

\* C20: a non-multipart request whose Content-Length is larger than
\* max_body_size is refused: no handler runs for it and the connection is
\* closed, however many of its body bytes arrived with the head.
C20_TooLarge ==
    (/\ parsed_head
     /\ content_types # {}
     /\ \A ct \in content_types : ~Contains(ct, S_multipart_form_data)
     /\ \E cl \in content_lengths : cl # <<>> /\ cl[1] > max_body_size) =>
      never_handled

\* ------------------------------------------------------------------------
\* multipart/form-data reader (http_parser.rs read_multiple_form_body)
\* ------------------------------------------------------------------------
\* Positions in this section are Rust's: 0-based, find_pos = -1 for not found.

\* &s[a..b] and &s[a..]
slice(s, a, b) == SubSeq(s, a + 1, b)
slice_from(s, a) == SubSeq(s, a + 1, Len(s))

FindSet(find_pos, end_pos) == [find_pos |-> find_pos, end_pos |-> end_pos]
NotFound == FindSet(-1, 0)

\* slice[start..].windows(sub.len()).position(..)
find_substr(s, sub, start) ==
    IF FindFrom(s, sub, start + 1) # 0
    THEN FindSet(FindFrom(s, sub, start + 1) - 1,
                 FindFrom(s, sub, start + 1) - 1 + Len(sub))
    ELSE NotFound

\* the comparison of sub with the bytes at start only
find_substr_once(s, sub, start) ==
    IF Len(sub) > Len(s) - start THEN NotFound
    ELSE IF slice(s, start, start + Len(sub)) = sub
    THEN FindSet(start, start + Len(sub))
    ELSE NotFound

S_filename_eq ==
    <<"f","i","l","e","n","a","m","e","=","\"">>

S_name_eq ==
    <<"n","a","m","e","=","\"">>

S_quote ==
    <<"\"">>

S_colon ==
    <<":">>

S_dot ==
    <<".">>

S_dash_dash ==
    <<"-","-">>

is_file(s) == Contains(s, S_filename_eq)

\* (k, v.trim()) of the header line in front of the blank line, ("", "") when
\* it has no colon or is not UTF-8
parse_file_content_type(s) ==
    LET str == IF is_utf8(slice(s, 0, Len(s) - 4)) THEN slice(s, 0, Len(s) - 4) ELSE <<>>
    IN  IF split_once(str, S_colon) = <<>> THEN <<<<>>, <<>>>>
        ELSE <<split_once(str, S_colon)[1], trim(split_once(str, S_colon)[2])>>

get_file_extension(s) ==
    IF RFind(s, S_dot) # 0 THEN SubSeq(s, RFind(s, S_dot), Len(s)) ELSE <<>>

\* get_config_from_disposition: the name, the pos_end it keeps with it (the
\* length of the name) and the Option of the filename; kind "panic" for todo!()
\* and for a slice index past the end of s
Disposition(kind, name, filename) ==
    [kind |-> kind, name |-> name, filename |-> filename]

get_config_from_disposition(s, file) ==
    LET pos == Find(s, S_name_eq) - 1 + Len(S_name_eq)
        pos_end == FindFrom(s, S_quote, pos + 1) - 1 - pos
        name == slice(s, pos, pos + pos_end)
        bias == pos_end + 2
        fpos == FindFrom(s, S_filename_eq, bias + 1) - 1 + Len(S_filename_eq)
        fend == FindFrom(s, S_quote, fpos + 1) - 1 - fpos
    IN  IF Find(s, S_name_eq) = 0 \/ FindFrom(s, S_quote, pos + 1) = 0
        THEN Disposition("panic", <<>>, <<>>)
        ELSE IF ~file THEN Disposition("ok", name, <<>>)
        ELSE IF bias > Len(s) \/ FindFrom(s, S_filename_eq, bias + 1) = 0
                \/ FindFrom(s, S_quote, fpos + 1) = 0
        THEN Disposition("panic", <<>>, <<>>)
        ELSE Disposition("ok", name, <<slice(s, fpos, fpos + fend)>>)

\* contains_substr up to its read_exact: read = 0 when it returns r at once,
\* otherwise the number of bytes it reads before comparing at pos
contains_substr(body_slice, pat, start) ==
    LET find == find_substr(body_slice, SubSeq(pat, 1, 1), start)
        pos == find.find_pos
        sub_str_len == Len(body_slice) - pos
    IN  IF find.find_pos # -1
        THEN IF sub_str_len >= Len(pat)
             THEN [read |-> 0, pos |-> pos,
                   r |-> IF slice(body_slice, pos, pos + Len(pat)) = pat
                         THEN FindSet(pos, pos + Len(pat)) ELSE NotFound]
             ELSE [read |-> Len(pat) - sub_str_len, pos |-> pos, r |-> NotFound]
        ELSE [read |-> 0, pos |-> 0, r |-> NotFound]

\* contains_substr after read_exact has appended `need` bytes: the slice it
\* compares with pat is body_slice[pos..pos + need]
contains_substr_after_read(body_slice, pat, pos, need) ==
    IF slice(body_slice, pos, pos + need) = pat
    THEN FindSet(pos, pos + Len(pat)) ELSE NotFound

\* MultipleFormData::Text and MultipleFormData::File(MultipleFormFile)
FilePath(uid, extension) ==
    [upload_directory |-> "./upload", uid |-> uid, extension |-> extension]
NoPath == FilePath(0, <<>>)
FormText(v) ==
    [kind |-> "Text", text |-> v, filename |-> <<>>, filepath |-> NoPath,
     content_type |-> <<>>]
FormFile(filename, filepath, content_type) ==
    [kind |-> "File", text |-> <<>>, filename |-> filename, filepath |-> filepath,
     content_type |-> content_type]

\* a file of the upload directory: what has been written to it, whether a
\* handle on it is open, whether the path still exists
SpoolFile(filepath) ==
    [filepath |-> filepath, bytes |-> <<>>, open |-> TRUE, exists |-> TRUE]

\* the places where read_multiple_form_body waits for the socket, and where it
\* has returned
MpReadSites == {"divider", "cs_exact", "two", "more", "file_none", "file_crlf",
                "file_cr", "drain"}
MpFileSites == {"file_none", "file_crlf", "file_cr"}
MpReturned == {"ok", "err", "panic"}

\* the locals of read_body_according_to_type / read_multiple_form_body at its
\* call: `dir` is the upload directory the call works on, `got` the bytes a
\* read_exact in progress has taken so far
MpStart(boundary, body_slice, need, dir) ==
    [at |-> "state0", ret |-> "", pos |-> 0, need |-> 0, r |-> NotFound, got |-> <<>>,
     boundary |-> boundary, buffs |-> body_slice, need_size |-> need,
     text_only_sequence |-> <<>>, multiple_data_collection |-> EmptyMap,
     form_indice |-> <<>>, file |-> FormFile(<<>>, NoPath, <<>>),
     file_handle |-> 0, dir |-> dir]

end_boundary_sequence(st) == st.boundary \o S_dash_dash
crlf_boundary_sequence(st) == CRLF \o st.boundary

\* file_handle.write(bytes)
file_write(st, bytes) ==
    [st EXCEPT !.dir[st.file_handle].bytes = @ \o bytes]

\* a handle that stays open when it goes out of scope
file_drop_leaking(st) == [st EXCEPT !.file_handle = 0]

\* the handle going out of scope
file_drop(st) ==
    IF st.file_handle = 0 THEN st
    ELSE [st EXCEPT !.dir[st.file_handle].open = FALSE, !.file_handle = 0]

\* drop(file_handle); remove_file(file_path)
file_remove(st) ==
    [st EXCEPT !.dir[st.file_handle].open = FALSE,
               !.dir[st.file_handle].exists = FALSE, !.file_handle = 0]

mp_err(st) == [file_drop(st) EXCEPT !.at = "err"]
mp_panic(st) == [file_drop(st) EXCEPT !.at = "panic"]

\* the pattern contains_substr is called with at each of its four call sites
cs_pattern(st, ret) ==
    IF ret = "state0_r" \/ ret = "text_r" THEN st.boundary
    ELSE IF ret = "state1_r" THEN CRLF
    ELSE double_crlf

\* a call of contains_substr(.., pat, 0) whose result is handled at `ret`
cs_call(st, ret) ==
    LET c == contains_substr(st.buffs, cs_pattern(st, ret), 0)
    IN  IF c.read # 0
        THEN [st EXCEPT !.at = "cs_exact", !.ret = ret, !.pos = c.pos, !.need = c.read]
        ELSE [st EXCEPT !.at = ret, !.r = c.r]

\* state 0 after contains_substr returned st.r
state_0_found(st) ==
    IF st.r.find_pos # -1
    THEN IF st.r.end_pos + 2 > Len(st.buffs)
         THEN [st EXCEPT !.at = "two"]
         ELSE [st EXCEPT !.at = "state0_end"]
    ELSE mp_err(st)

\* state 0 from `let is_end = ..` on
state_0_end(st) ==
    IF find_substr_once(st.buffs, end_boundary_sequence(st), 0).find_pos = st.r.find_pos
    THEN [st EXCEPT !.at = "after"]
    ELSE [st EXCEPT !.buffs = slice_from(st.buffs, st.r.end_pos + 2), !.at = "state1"]

\* state 1 after the CRLF search returned st.r: the part's first header line
state_1_found(st) ==
    LET content_disposition == slice(st.buffs, 0, st.r.end_pos)
        rest == slice_from(st.buffs, st.r.end_pos)
        config == get_config_from_disposition(content_disposition, TRUE)
    IN  IF st.r.find_pos = -1 THEN [st EXCEPT !.at = "more", !.ret = "state1"]
        ELSE IF ~is_file(content_disposition)
        THEN [st EXCEPT !.text_only_sequence =
                            @ \o st.boundary \o CRLF \o content_disposition,
                        !.buffs = rest, !.at = "text"]
        ELSE IF ~is_utf8(content_disposition) \/ config.kind = "panic"
        THEN mp_panic(st)
        ELSE [st EXCEPT !.file = FormFile(config.filename[1],
                                          FilePath(Len(st.dir) + 1,
                                                   get_file_extension(config.filename[1])),
                                          <<>>),
                        !.form_indice = config.name,
                        !.buffs = rest, !.at = "dcrlf"]

\* a text part after the boundary search returned st.r
text_found(st) ==
    IF st.r.find_pos = -1 THEN [st EXCEPT !.at = "more", !.ret = "text"]
    ELSE [st EXCEPT !.text_only_sequence = @ \o slice(st.buffs, 0, st.r.find_pos),
                    !.buffs = slice_from(st.buffs, st.r.find_pos),
                    !.at = "state0"]

\* the longest file name the file system takes, in bytes, and the length of
\* Uuid::new_v4().to_string()
NAME_MAX == 255
UuidLen == 36
NulByte == "x00"

\* OpenOptions::new().write(true).create(true).open(filepath): the file is
\* created when the path names a direct child of the upload directory; a `/`
\* in the extension makes `<uuid>.<...>` a directory of the path, which does
\* not exist, and the open fails; it fails as well when the name
\* `<uuid><extension>` is longer than NAME_MAX or holds a NUL byte
S_slash ==
    <<"/">>
open_create(filepath) ==
    /\ UuidLen + Len(filepath.extension) <= NAME_MAX
    /\ \A i \in 1..Len(filepath.extension) :
          filepath.extension[i] \notin {S_slash[1], NulByte}

\* a file part after the search of the blank line returned st.r: the
\* content type is taken, the spool file is created (`.unwrap()` on the open)
\* and entered in the form
double_crlf_found(st) ==
    LET f == [st.file EXCEPT
                !.content_type =
                    parse_file_content_type(slice(st.buffs, 0, st.r.end_pos))[2]]
    IN  IF st.r.find_pos = -1 THEN [st EXCEPT !.at = "more", !.ret = "dcrlf"]
        ELSE IF ~open_create(f.filepath) THEN mp_panic(st)
        ELSE [st EXCEPT !.file = f,
                        !.buffs = slice_from(st.buffs, st.r.end_pos),
                        !.dir = Append(@, SpoolFile(f.filepath)),
                        !.file_handle = Len(st.dir) + 1,
                        !.multiple_data_collection = map_insert(@, st.form_indice, f),
                        !.at = "file"]

\* the end of a file part: `state = 0; continue 'Outer`
file_part_end(st, pos) ==
    [file_drop(file_write(st, slice(st.buffs, 0, pos))) EXCEPT
        !.buffs = slice_from(st.buffs, pos + 2), !.at = "state0"]

\* a CRLF at pos that is not followed by the boundary is file content
file_crlf_content(st, pos) ==
    [file_write(st, slice(st.buffs, 0, pos + 2)) EXCEPT
        !.buffs = slice_from(st.buffs, pos + 2), !.at = "file"]

\* one iteration of the file loop up to its continue or its read
file_loop(st) ==
    LET find_cr == find_substr(st.buffs, <<"\r">>, 0)
        pos == find_cr.find_pos
        len == Len(st.buffs)
    IN  IF find_cr.find_pos = -1
        THEN [file_write(st, st.buffs) EXCEPT !.buffs = <<>>, !.at = "file_none"]
        ELSE IF pos + 1 < len
        THEN IF st.buffs[pos + 2] = "\n"
             THEN IF len - pos >= Len(crlf_boundary_sequence(st))
                  THEN IF find_substr_once(st.buffs, crlf_boundary_sequence(st),
                                           pos).find_pos # -1
                       THEN file_part_end(st, pos)
                       ELSE file_crlf_content(st, pos)
                  ELSE [st EXCEPT !.at = "file_crlf", !.pos = pos]
             ELSE [file_write(st, slice(st.buffs, 0, pos + 1)) EXCEPT
                      !.buffs = slice_from(st.buffs, pos + 1), !.at = "file"]
        ELSE [file_write(st, slice(st.buffs, 0, pos)) EXCEPT
                 !.buffs = <<"\r">>, !.at = "file_cr"]

\* the loop over s.split(pat) that enters the text parts in the form
RECURSIVE collect_text(_, _)
collect_text(els, form) ==
    IF els = <<>> THEN [kind |-> "ok", form |-> form]
    ELSE IF Head(els) = <<>> THEN collect_text(Tail(els), form)
    ELSE LET r == split_once(Head(els), double_crlf)
         IN  IF r = <<>> THEN [kind |-> "err", form |-> form]
             ELSE IF get_config_from_disposition(r[1], FALSE).kind = "panic"
                     \/ Len(r[2]) < 2
             THEN [kind |-> "panic", form |-> form]
             ELSE collect_text(
                      Tail(els),
                      map_insert(form, get_config_from_disposition(r[1], FALSE).name,
                                 FormText(slice(r[2], 0, Len(r[2]) - 2))))

\* read_multiple_form_body after the 'Outer loop and the residual read
text_extraction(st) ==
    LET pat == st.boundary \o CRLF
        c == collect_text(split(st.text_only_sequence, pat),
                          st.multiple_data_collection)
    IN  IF ~is_utf8(pat) \/ ~is_utf8(st.text_only_sequence) THEN mp_err(st)
        ELSE IF c.kind = "ok"
        THEN [st EXCEPT !.multiple_data_collection = c.form, !.at = "ok"]
        ELSE IF c.kind = "err" THEN mp_err(st)
        ELSE mp_panic(st)

\* `if need_size != 0 { stream.read(&mut buff) }`
after_loop(st) ==
    IF st.need_size # 0 THEN [st EXCEPT !.at = "drain"] ELSE [st EXCEPT !.at = "extract"]

\* from one program point to the next
mp_step(st) ==
    CASE st.at = "state0" -> cs_call(st, "state0_r")
      [] st.at = "state0_r" -> state_0_found(st)
      [] st.at = "state0_end" -> state_0_end(st)
      [] st.at = "state1" -> cs_call(st, "state1_r")
      [] st.at = "state1_r" -> state_1_found(st)
      [] st.at = "text" -> cs_call(st, "text_r")
      [] st.at = "text_r" -> text_found(st)
      [] st.at = "dcrlf" -> cs_call(st, "dcrlf_r")
      [] st.at = "dcrlf_r" -> double_crlf_found(st)
      [] st.at = "file" -> file_loop(st)
      [] st.at = "after" -> after_loop(st)
      [] st.at = "extract" -> text_extraction(st)

\* read_multiple_form_body from a program point to its next socket read or to
\* its return
RECURSIVE mp_run(_)
mp_run(st) ==
    IF st.at \in MpReadSites \cup MpReturned THEN st ELSE mp_run(mp_step(st))

\* `need_size -= n` on a usize: a value below zero stands for the wrapped one
usize_underflow(a, n) == a >= 0 /\ n > a

\* how many bytes the read at a site asks for, and whether it is a read_exact
mp_space(st) ==
    CASE st.at = "divider" -> Len(st.boundary) + 2
      [] st.at = "cs_exact" -> st.need
      [] st.at = "two" -> 2
      [] st.at = "file_cr" -> read_buff_increase_size - 1
      [] st.at = "drain" -> 10
      [] OTHER -> read_buff_increase_size
mp_exact(st) == st.at \in {"divider", "cs_exact", "two"}

\* the read at site st.at has returned the bytes b: the reader up to its next
\* read or its return
mp_read(st, b, overflow_checks) ==
    LET sub == [st EXCEPT !.need_size = @ - Len(b)]
        app == [sub EXCEPT !.buffs = @ \o b]
    IN  IF st.at = "drain" THEN mp_run([st EXCEPT !.at = "extract"])
        ELSE IF usize_underflow(st.need_size, Len(b)) /\ overflow_checks
        THEN mp_panic(st)
        ELSE mp_run(
          CASE st.at = "divider" -> [sub EXCEPT !.buffs = b, !.at = "state0"]
            [] st.at = "cs_exact" ->
                 [app EXCEPT !.r = contains_substr_after_read(
                                       app.buffs, cs_pattern(st, st.ret), st.pos, st.need),
                             !.at = st.ret]
            [] st.at = "two" -> [app EXCEPT !.at = "state0_end"]
            [] st.at = "more" -> [app EXCEPT !.at = st.ret]
            [] st.at = "file_none" -> [sub EXCEPT !.buffs = b, !.at = "file"]
            [] st.at = "file_crlf" ->
                 IF find_substr_once(app.buffs, crlf_boundary_sequence(st),
                                     st.pos).find_pos # -1
                 THEN file_part_end(app, st.pos)
                 ELSE file_crlf_content(app, st.pos)
            [] st.at = "file_cr" -> [app EXCEPT !.at = "file"])

\* the read at site st.at fails or, at a stream.read, returns 0
mp_read_error(st) ==
    IF st.at \in MpFileSites THEN [file_remove(st) EXCEPT !.at = "err"] ELSE mp_err(st)

\* the multipart branch of read_body_according_to_type up to its first read:
\* <<>> when the Content-Type has no `;` or no `=` (BodyContent::Bad)
multipart_boundary(btype) ==
    IF split_once(btype, <<";">>) = <<>> THEN <<>>
    ELSE IF split_once(trim(split_once(btype, <<";">>)[2]), <<"=">>) = <<>> THEN <<>>
    ELSE <<S_dash_dash
           \o trim(split_once(trim(split_once(btype, <<";">>)[2]), <<"=">>)[2])>>

multipart_enter(btype, cont, need, dir) ==
    IF multipart_boundary(btype) = <<>>
    THEN mp_err(MpStart(<<>>, cont, need, dir))
    ELSE IF Len(cont) = 0
    THEN [MpStart(multipart_boundary(btype)[1], cont, need, dir) EXCEPT !.at = "divider"]
    ELSE mp_run(MpStart(multipart_boundary(btype)[1], cont, need, dir))

\* the reader's locals and the upload directory it works on
MpLocals(st) == [f \in (DOMAIN st) \ {"dir"} |-> st[f]]
MpState == [f \in (DOMAIN mp) \cup {"dir"} |->
              IF f = "dir" THEN upload_directory ELSE mp[f]]

Multi(form) == [tag |-> "Multi", text |-> <<>>, form |-> form]

\* the reader stands at st: at a read it waits, at its return
\* read_body_according_to_type hands Multi(form) or Bad to handle_incoming;
\* before it parses the text parts the reader has replaced the container by
\* the text-only sequence (`body.clear(); body.extend_from_slice(..)`)
MpSet(st) ==
    /\ upload_directory' = st.dir
    /\ IF st.at = "ok"
       THEN /\ mp' = NoMp
            /\ pc' = "route"
            /\ body' = Multi(st.multiple_data_collection)
            /\ container' = st.text_only_sequence
            /\ UNCHANGED <<result, request, need_alive, body_type, need_read_size>>
       ELSE IF st.at = "err" THEN mp' = NoMp /\ SetCtl(Rejected)
       ELSE IF st.at = "panic" THEN mp' = NoMp /\ SetCtl(Panicked)
       ELSE /\ mp' = MpLocals(st)
            /\ UNCHANGED <<pc, result, request, need_alive, body_type, container,
                           need_read_size, body>>

\* read_body_according_to_type enters its multipart branch
MultipartEnter ==
    /\ pc = "multipart" /\ mp = NoMp
    /\ MpSet(multipart_enter(body_type, container, need_read_size, upload_directory))
    /\ UNCHANGED <<wire, sent, read_buffs, cap, nreq, head_content, response, out,
                   handled, written, chunk_size, ops_bound, router_map, invoked, posted, pool, writer>>

\* one read() of the multipart reader returns bytes: a stream.read takes at
\* least one byte of what is there and the reader goes on; a read_exact loops
\* over read() until it has the bytes it asks for, and each of its reads is a
\* step; the residual read also returns when the peer has closed
MultipartRead ==
    /\ pc = "multipart" /\ mp # NoMp
    /\ \E overflow_checks \in BOOLEAN :
        \E n \in (IF mp_exact(mp) THEN read_sizes(mp_space(mp) - Len(mp.got))
                  ELSE read_sizes(mp_space(mp))) :
          /\ n > 0 \/ mp.at = "drain"
          /\ wire' = SubSeq(wire, n + 1, Len(wire))
          /\ IF mp_exact(mp) /\ Len(mp.got) + n < mp_space(mp)
             THEN /\ mp' = [mp EXCEPT !.got = @ \o SubSeq(wire, 1, n)]
                  /\ UNCHANGED <<pc, result, request, need_alive, body_type, container,
                                 need_read_size, body, upload_directory>>
             ELSE MpSet(mp_read([MpState EXCEPT !.got = <<>>],
                                mp.got \o SubSeq(wire, 1, n), overflow_checks))
    /\ UNCHANGED <<sent, read_buffs, cap, nreq, head_content, response, out,
                   handled, written, chunk_size, ops_bound, router_map, invoked, posted, pool, writer>>

\* one read() of the multipart reader fails (Err, a timeout included) or
\* returns 0 at a stream.read inside the loop or inside a read_exact
\* (UnexpectedEof); what a read_exact had taken before is gone from the socket
MultipartReadError ==
    /\ pc = "multipart" /\ mp # NoMp
    /\ MpSet(mp_read_error(MpState))
    /\ UNCHANGED <<wire, sent, read_buffs, cap, nreq, head_content, response, out,
                   handled, written, chunk_size, ops_bound, router_map, invoked, posted, pool, writer>>

\* the body reader with the multipart reader unfolded
NextBody ==
    \/ ReadHeadError
    \/ ReadHead
    \/ ReadBodyError
    \/ ReadBody
    \/ MultipartEnter
    \/ MultipartRead
    \/ MultipartReadError
    \/ Dispatch
    \/ WriteResponse
    \/ LoopEnd

SpecBody == InitBody /\ [][NextBody]_vars

\* ------------------------------------------------------------------------
\* The multipart reader on well-formed multipart requests
\* ------------------------------------------------------------------------
\* A form is a sequence of parts and the epilogue that follows the closing
\* delimiter; its encoding is the one of RFC 7578 with the boundary `b`.
TextPart(name, value) ==
    [kind |-> "Text", name |-> name, filename |-> <<>>, content_type |-> <<>>,
     data |-> value]
FilePart(name, filename, content_type, data) ==
    [kind |-> "File", name |-> name, filename |-> filename,
     content_type |-> content_type, data |-> data]
Form(parts, epilogue) == [parts |-> parts, epilogue |-> epilogue]

S_b ==
    <<"b">>

S_disposition ==
    <<"C","o","n","t","e","n","t","-","D","i","s","p","o","s","i","t","i","o","n",":"," ","f",
      "o","r","m","-","d","a","t","a",";"," ","n","a","m","e","=","\"">>

S_disposition_filename ==
    <<"\"",";"," ","f","i","l","e","n","a","m","e","=","\"">>

S_part_content_type ==
    <<"C","o","n","t","e","n","t","-","T","y","p","e",":"," ">>

DASH_B == S_dash_dash \o S_b

\* the header lines of a part, the blank line included
part_headers(p) ==
    S_disposition \o p.name
    \o (IF p.kind = "File" THEN S_disposition_filename \o p.filename ELSE <<>>)
    \o S_quote \o CRLF
    \o (IF p.content_type = <<>> THEN <<>>
        ELSE S_part_content_type \o p.content_type[1] \o CRLF)
    \o CRLF

RECURSIVE encode_parts(_)
encode_parts(parts) ==
    IF parts = <<>> THEN <<>>
    ELSE DASH_B \o CRLF \o part_headers(Head(parts)) \o Head(parts).data \o CRLF
         \o encode_parts(Tail(parts))

\* the request body of a form
encode_form(form) ==
    encode_parts(form.parts) \o DASH_B \o S_dash_dash \o CRLF \o form.epilogue

S_t ==
    <<"t">>

S_g ==
    <<"g">>

S_a_txt ==
    <<"a",".","t","x","t">>

S_b_bin ==
    <<"b",".","b","i","n">>

S_hi ==
    <<"h","i">>

S_v ==
    <<"v">>

DataTricky ==
    <<"x","\r","\r","\n","-","-","a","\r","\n","-","y">>

ValueTwoLines ==
    <<"l","1","\r","\n","l","2">>

ValueDash ==
    <<"a","-","b">>

Epilogue12 ==
    <<"e","n","d"," ","o","f"," ","f","o","r","m",".">>

\* one file whose data holds a lone CR, a CRLF and runs that begin like the
\* delimiter
FormTricky == Form(<<FilePart(S_f, S_a_txt, <<S_text_plain>>, DataTricky)>>, <<>>)
\* a text field of two lines, then a file
FormTextFile ==
    Form(<<TextPart(S_t, ValueTwoLines), FilePart(S_f, S_a_txt, <<S_text_plain>>, S_hi)>>,
         <<>>)
\* a text field whose value holds a '-'
FormDash == Form(<<TextPart(S_t, ValueDash)>>, <<>>)
\* a file part without a Content-Type header
FormNoType == Form(<<FilePart(S_f, S_a_txt, <<>>, S_hi)>>, <<>>)
\* two files
FormTwoFiles ==
    Form(<<FilePart(S_f, S_a_txt, <<S_text_plain>>, S_hi),
           FilePart(S_g, S_b_bin, <<S_text_plain>>, S_v)>>, <<>>)
\* a text field and an epilogue after the closing delimiter
FormEpilogue == Form(<<TextPart(S_t, S_v)>>, Epilogue12)

\* a file whose name holds a `/` after its last `.`
S_a_slash_b ==
    <<"a",".","/","b">>
FormSlash == Form(<<FilePart(S_f, S_a_slash_b, <<S_text_plain>>, S_hi)>>, <<>>)

Forms ==
    {FormTricky, FormTextFile, FormDash, FormNoType, FormTwoFiles, FormEpilogue,
     FormSlash}

S_post_head ==
    <<"P","O","S","T"," ","/","p"," ","H","T","T","P","/","1",".","1","\r","\n","C","o","n",
      "n","e","c","t","i","o","n",":"," ","k","e","e","p","-","a","l","i","v","e","\r","\n",
      "C","o","n","t","e","n","t","-","T","y","p","e",":"," ","m","u","l","t","i","p","a",
      "r","t","/","f","o","r","m","-","d","a","t","a",";"," ","b","o","u","n","d","a","r",
      "y","=","b","\r","\n","C","o","n","t","e","n","t","-","L","e","n","g","t","h",":"," ">>

\* the head of the request that carries the form
form_head(form) == S_post_head \o to_string(Len(encode_form(form)))

\* how many bytes of the body the head read has already returned
BodyPrefixes(form) == {0, 1, 3, Len(encode_form(form))}

\* handle_incoming has read the head of a multipart request together with
\* the first k bytes of its body
InitMultipart ==
    /\ posted \in Forms
    /\ \E k \in BodyPrefixes(posted) :
         /\ wire = SubSeq(encode_form(posted), k + 1, Len(encode_form(posted)))
         /\ \E c \in after_head(form_head(posted),
                                IF k = 0 THEN <<>>
                                ELSE <<SubSeq(encode_form(posted), 1, k)>>) :
              /\ pc = c.pc /\ result = c.result /\ request = c.request
              /\ need_alive = c.need_alive /\ body_type = c.body_type
              /\ container = c.container /\ need_read_size = c.need_read_size
              /\ body = c.body
    /\ head_content = form_head(posted)
    /\ sent = 1
    /\ read_buffs = <<>>
    /\ cap = read_buff_increase_size
    /\ nreq = 1
    /\ response = NoResponse
    /\ out = NoOut
    /\ handled = {}
    /\ written = <<>>
    /\ chunk_size = 16
    /\ ops_bound = DriverOps
    /\ router_map = ServerRouter
    /\ invoked = NoInvocation
    /\ mp = NoMp /\ upload_directory = <<>> /\ pool = NoPool /\ writer = NoWriter

NextMultipart ==
    \/ MultipartEnter
    \/ MultipartRead
    \/ MultipartReadError
    \/ Dispatch
    \/ WriteResponse
    \/ LoopEnd

SpecMultipart == InitMultipart /\ [][NextMultipart]_vars

\* ------------------------------------------------------------------------
\* Claims about the multipart reader
\* ------------------------------------------------------------------------
\* the spool file a form entry points to, <<>> when the upload directory has
\* no existing file of that path
spooled(entry) ==
    {upload_directory[j].bytes :
       j \in {i \in 1..Len(upload_directory) :
                /\ upload_directory[i].filepath = entry.filepath
                /\ upload_directory[i].exists}}

file_parts(form) == {i \in 1..Len(form.parts) : form.parts[i].kind = "File"}

\* the handler is about to run on the form of a multipart request
multi_at_handler == pc = "route" /\ body.tag = "Multi"

\* C21: when the handler gets the form of a well-formed multipart request,
\* every file part of the request is an entry under its field name with the
\* original filename, and the spool file of the entry holds exactly the data
\* bytes of the part.
C21_FileSpooledExactly ==
    multi_at_handler =>
      \A i \in file_parts(posted) :
         /\ posted.parts[i].name \in DOMAIN body.form
         /\ body.form[posted.parts[i].name].kind = "File"
         /\ body.form[posted.parts[i].name].filename = posted.parts[i].filename
         /\ spooled(body.form[posted.parts[i].name]) = {posted.parts[i].data}

\* the form entries that are files
file_entries(form) == {k \in DOMAIN form : form[k].kind = "File"}

\* the spool files of the upload directory with the path of a form entry
spool_files(entry) ==
    {j \in 1..Len(upload_directory) : upload_directory[j].filepath = entry.filepath}

\* every file entry of the form handed to the handler has its spool file, and
\* no spool file is open
spool_closed ==
    /\ \A k \in file_entries(body.form) :
          \E j \in spool_files(body.form[k]) : upload_directory[j].exists
    /\ \A j \in 1..Len(upload_directory) : ~upload_directory[j].open

\* C22: from the moment the middlewares and the handler of a multipart request
\* are invoked, every file entry of the form has its spool file, every spool
\* file is closed, and nothing is written to the upload directory any more
\* while the request is handled.
C22_SpoolBeforeHandler ==
    /\ [](body.tag = "Multi" => spool_closed)
    /\ [][body.tag = "Multi" => upload_directory' = upload_directory]_vars

C22_Witness ==
    /\ pc = "write" /\ body.tag = "Multi" /\ nreq \in handled
    /\ posted = FormTwoFiles
    /\ file_entries(body.form) = {S_f, S_g}
    /\ Len(upload_directory) = 2
    /\ upload_directory[1].bytes = S_hi /\ upload_directory[2].bytes = S_v
    /\ spool_closed

\* a read of the multipart reader has failed: the step returns the error
\* without having taken a byte
read_failed == pc = "multipart" /\ mp # NoMp /\ pc' = "closed" /\ wire' = wire

\* C23: when a socket read fails, times out or returns 0 while a file part is
\* being streamed (its spool file is open), the path of that spool file no
\* longer exists when the error is returned.
C23_FailedReadRemovesSpool ==
    [][read_failed =>
         \A j \in 1..Len(upload_directory) :
            upload_directory[j].open =>
               ~upload_directory'[j].exists /\ ~upload_directory'[j].open]_vars

C23_Witness ==
    /\ pc = "closed" /\ result = "rejected" /\ posted = FormTricky
    /\ Len(upload_directory) = 1
    /\ upload_directory[1].bytes # <<>>
    /\ ~upload_directory[1].exists /\ ~upload_directory[1].open

\* ------------------------------------------------------------------------
\* Header names (specification SpecWriter)
\* ------------------------------------------------------------------------
\* C24: header names are matched ignoring case wherever the server looks one
\* up, removes one or tests for a duplicate, so the header block of a response
\* never holds two names that are equal ignoring case.
C24_NoCaseDuplicates ==
    (pc = "wrote" /\ out.sent_header) =>
        \A a \in emitted_names : \A b \in emitted_names :
            to_lowercase(a) = to_lowercase(b) => a = b

\* the ResponseConfig methods a handler can chain after write_file
ChainedOps ==
    {op \in HandlerOps : op.name \in {"chunked", "enable_range", "specify_file_name"}}
    \cup {[name |-> "status", a |-> <<>>, b |-> <<>>, code |-> c] : c \in {200, 404, 500}}

\* the handler state right after write_file(path) on the response res
after_write_file(res, path) ==
    HandlerState(write_file(res, path)[1],
                 IF write_file(res, path)[2] THEN "failed" ELSE "ok", FALSE)

\* the states chains of at most n configurator calls lead to
RECURSIVE chained_states(_, _)
chained_states(S, n) ==
    IF n = 0 THEN S
    ELSE chained_states(S \cup UNION {apply_op(st, op) : st \in S, op \in ChainedOps}, n - 1)

\* C25: write_file on a path that cannot be opened leaves the response, whatever
\* the handler did to it before, with status 404, the Memory body
\* `<path> file not found` and a Content-length equal to the length of that
\* body; no chain of configurator calls on the returned ResponseConfig changes
\* anything of the response.
C25_FailedWriteFile ==
    pc = "write" =>
      LET st == after_write_file(response, PathMissing)
      IN  /\ st.res.http_state = 404
          /\ st.res.body = Memory(PathMissing \o S_file_not_found)
          /\ st.res.header_pair[S_Content_length]
               = to_string(Len(PathMissing \o S_file_not_found))
          /\ chained_states({st}, MaxOps) = {st}

\* a handler that called write_file on the missing path: the 404 and the text
\* are on the wire
C25_Witness ==
    /\ pc = "wrote" /\ result = "ok"
    /\ response.body = Memory(PathMissing \o S_file_not_found)
    /\ response.http_state = 404 /\ ~response.chunked
    /\ emitted_status(404)
    /\ emitted(S_Content_length, to_string(Len(PathMissing \o S_file_not_found)))
    /\ concat(out.writes) = PathMissing \o S_file_not_found

\* ------------------------------------------------------------------------
\* Worker pool (thread_pool.rs) and the accept loop of run() (lib.rs)
\* ------------------------------------------------------------------------
MaxWorkers == 3
MaxConns == 4

\* a worker: its channel is open while its thread lives (the thread owns the
\* receiver); queue holds what was sent and not yet received, busy the
\* connection f is handling (0 for none), received what rx.recv() has returned
MyTask(open, queue, busy) ==
    [open |-> open, queue |-> queue, busy |-> busy, received |-> <<>>]

ThreadPool(tasks, index, max, polls) ==
    [tasks |-> tasks, index |-> index, max |-> max, polls |-> polls]

\* ThreadPool::new(num, f)
ThreadPool_new(num) ==
    ThreadPool([i \in 1..num |-> MyTask(TRUE, <<>>, 0)], 0, num, <<>>)

\* what one call of poll returned and where the data went (to = 0: nowhere)
Polled(data, res, to) == [data |-> data, result |-> res, to |-> to]

\* ThreadPool::poll(data): index wraps to 0 at max, the data is sent to
\* tasks[index]; index advances only when the send succeeded
poll(p, data) ==
    LET index == IF p.index >= p.max THEN 0 ELSE p.index
    IN  IF index < Len(p.tasks)
        THEN IF p.tasks[index + 1].open
             THEN [p EXCEPT !.tasks[index + 1].queue = Append(@, data),
                            !.index = index + 1,
                            !.polls = Append(@, Polled(data, "ok", index + 1))]
             ELSE [p EXCEPT !.index = index,
                            !.polls = Append(@, Polled(data, "err", 0))]
        ELSE [p EXCEPT !.index = index, !.polls = Append(@, Polled(data, "ok", 0))]

\* run(): the listener accepts the next connection and hands it to the pool;
\* an Err of poll is only logged
Accept ==
    /\ pc = "listen"
    /\ Len(pool.polls) < MaxConns
    /\ pool' = poll(pool, Len(pool.polls) + 1)
    /\ UNCHANGED <<wire, sent, pc, read_buffs, cap, nreq, head_content, request,
                   need_alive, body_type, container, need_read_size, body, response,
                   out, result, handled, written, chunk_size, ops_bound, router_map,
                   invoked, mp, upload_directory, posted, writer>>

\* the loop of a worker thread: rx.recv() returns the next connection
WorkerRecv ==
    /\ pc = "listen"
    /\ \E i \in 1..Len(pool.tasks) :
         /\ pool.tasks[i].open /\ pool.tasks[i].busy = 0 /\ pool.tasks[i].queue # <<>>
         /\ pool' = [pool EXCEPT !.tasks[i].busy = Head(pool.tasks[i].queue),
                                 !.tasks[i].received =
                                     Append(@, Head(pool.tasks[i].queue)),
                                 !.tasks[i].queue = Tail(@)]
    /\ UNCHANGED <<wire, sent, pc, read_buffs, cap, nreq, head_content, request,
                   need_alive, body_type, container, need_read_size, body, response,
                   out, result, handled, written, chunk_size, ops_bound, router_map,
                   invoked, mp, upload_directory, posted, writer>>

\* f(stream) returns: handle_incoming has finished with the connection
WorkerDone ==
    /\ pc = "listen"
    /\ \E i \in 1..Len(pool.tasks) :
         /\ pool.tasks[i].busy # 0
         /\ pool' = [pool EXCEPT !.tasks[i].busy = 0]
    /\ UNCHANGED <<wire, sent, pc, read_buffs, cap, nreq, head_content, request,
                   need_alive, body_type, container, need_read_size, body, response,
                   out, result, handled, written, chunk_size, ops_bound, router_map,
                   invoked, mp, upload_directory, posted, writer>>

\* f(stream) panics: the thread unwinds, its receiver is dropped with what
\* was queued, and the channel is closed
WorkerPanic ==
    /\ pc = "listen"
    /\ \E i \in 1..Len(pool.tasks) :
         /\ pool.tasks[i].busy # 0
         /\ pool' = [pool EXCEPT !.tasks[i].open = FALSE,
                                 !.tasks[i].queue = <<>>,
                                 !.tasks[i].busy = 0]
    /\ UNCHANGED <<wire, sent, pc, read_buffs, cap, nreq, head_content, request,
                   need_alive, body_type, container, need_read_size, body, response,
                   out, result, handled, written, chunk_size, ops_bound, router_map,
                   invoked, mp, upload_directory, posted, writer>>

\* run() has bound the listener and created the pool with thread_number
\* workers
InitPool ==
    /\ pc = "listen"
    /\ \E num \in 0..MaxWorkers : pool = ThreadPool_new(num)
    /\ wire = <<>>
    /\ sent = 0
    /\ read_buffs = <<>>
    /\ cap = 0
    /\ nreq = 0
    /\ head_content = <<>>
    /\ request = NoRequest /\ need_alive = FALSE /\ body_type = <<>>
    /\ container = <<>> /\ need_read_size = 0 /\ body = BodyNone
    /\ response = NoResponse
    /\ out = NoOut
    /\ result = ""
    /\ handled = {}
    /\ written = <<>>
    /\ chunk_size = 16
    /\ ops_bound = 0
    /\ router_map = ServerRouter
    /\ invoked = NoInvocation
    /\ mp = NoMp /\ upload_directory = <<>> /\ posted = NoForm /\ writer = NoWriter

NextPool ==
    \/ Accept
    \/ WorkerRecv
    \/ WorkerDone
    \/ WorkerPanic

SpecPool == InitPool /\ [][NextPool]_vars

\* the workers whose channel is open
live_workers(p) == {i \in 1..Len(p.tasks) : p.tasks[i].open}

\* the step is a call of poll
poll_step == Len(pool'.polls) = Len(pool.polls) + 1

\* C26: poll returns an error only when the channels of all workers are
\* closed; while at least one worker lives, poll succeeds and the connection
\* is delivered to a live worker.
C26_PollFindsLiveWorker ==
    [][poll_step =>
         LET e == pool'.polls[Len(pool'.polls)]
         IN  /\ e.result = "err" => live_workers(pool) = {}
             /\ live_workers(pool) # {} =>
                  /\ e.result = "ok"
                  /\ e.to \in live_workers(pool)
                  /\ e.data \in {pool'.tasks[e.to].queue[k] :
                                   k \in 1..Len(pool'.tasks[e.to].queue)}]_vars

\* how the body reader ends for a request: the form and the spool files it
\* hands to the handler, or a rejection
Outcome(kind, form, dir) == [kind |-> kind, form |-> form, dir |-> dir]
Refused(kind) == Outcome(kind, EmptyMap, <<>>)

\* the outcome when the whole body arrives together with the head, so that
\* the reader never reads; a reader left waiting for bytes that never come
\* ends with the read timeout
unsegmented_outcome ==
    LET r == multipart_enter(body_type, encode_form(posted), 0, <<>>)
    IN  IF r.at = "ok" THEN Outcome("ok", r.multiple_data_collection, r.dir)
        ELSE IF r.at = "panic" THEN Refused("panic")
        ELSE Refused("rejected")

\* the reader returns in this step, and not because the connection broke while
\* bytes of the body were still to come
reader_returns ==
    /\ pc = "multipart" /\ pc' # "multipart"
    /\ mp = NoMp \/ wire' # wire \/ wire = <<>>

\* C27: the outcome of reading a multipart body does not depend on how the
\* socket reads cut the byte stream: it is the outcome of the unsegmented
\* body for every read segmentation, a head read that already returned only
\* the first byte or bytes of the body included.
C27_SegmentationIndependent ==
    [][reader_returns =>
         unsegmented_outcome =
            (IF pc' = "route" THEN Outcome("ok", body'.form, upload_directory')
             ELSE IF pc' = "panicked" THEN Refused("panic")
             ELSE Refused("rejected"))]_vars

\* Request::get_query: the Options the HashMap's iteration order can produce
get_query(b, k) ==
    IF b.tag = "UrlForm"
    THEN IF keys_matching(b.form, k) = {} THEN {<<>>}
         ELSE {<<b.form[x]>> : x \in keys_matching(b.form, k)}
    ELSE IF b.tag = "Multi"
    THEN IF keys_matching(b.form, k) = {} THEN {<<>>}
         ELSE {IF b.form[x].kind = "Text" THEN <<b.form[x].text>> ELSE <<>> :
                 x \in keys_matching(b.form, k)}
    ELSE {<<>>}

text_parts(form) == {i \in 1..Len(form.parts) : form.parts[i].kind = "Text"}

\* every text field of the posted form reads back through get_query
text_values_exposed(b) ==
    \A i \in text_parts(posted) :
       ~Contains(posted.parts[i].data, DASH_B) =>
          get_query(b, posted.parts[i].name) = {<<posted.parts[i].data>>}

\* C28: a text part whose value does not contain the delimiter is exposed by
\* get_query with exactly the bytes of its value, values with `-` or CRLF
\* included: a form of text parts whose body is complete is handed to the
\* handler, and whenever a form reaches the handler its text values read back.
C28_TextValueExact ==
    /\ [](multi_at_handler => text_values_exposed(body))
    /\ [][(pc = "multipart" /\ mp = NoMp /\ wire = <<>>
           /\ file_parts(posted) = {})
          => (pc' = "route" /\ text_values_exposed(body'))]_vars

\* the file parts of a form that carry no Content-Type part header
untyped_file_parts(form) ==
    {i \in file_parts(form) : form.parts[i].content_type = <<>>}

\* every file part without a Content-Type header is an entry of the form with
\* an empty content_type and its data in the spool file
untyped_files_spooled(b) ==
    \A i \in untyped_file_parts(posted) :
       /\ posted.parts[i].name \in DOMAIN b.form
       /\ b.form[posted.parts[i].name].kind = "File"
       /\ b.form[posted.parts[i].name].content_type = <<>>
       /\ spooled(b.form[posted.parts[i].name]) = {posted.parts[i].data}

\* C29: a file part is accepted and spooled with or without a Content-Type
\* part header: when the Content-Disposition line is followed directly by the
\* blank line, the request whose body is complete is handed to the handler,
\* the part's data is spooled unchanged and its content_type is empty.
C29_FileWithoutContentType ==
    /\ [](multi_at_handler => untyped_files_spooled(body))
    /\ [][(pc = "multipart" /\ mp = NoMp /\ wire = <<>>
           /\ untyped_file_parts(posted) # {})
          => (pc' = "route" /\ untyped_files_spooled(body'))]_vars

\* C30: once the closing delimiter has been recognised the reader consumes
\* every byte still owed by Content-Length before it returns: when the form
\* is handed to the handler no byte of the body is left on the socket, so the
\* next head read of the keep-alive connection starts right after the body,
\* however many residual bytes there were.
C30_ResidualDrained ==
    multi_at_handler => wire = <<>>

\* ------------------------------------------------------------------------
\* The sliding buffer of the file loop (specification SpecMultipart)
\* ------------------------------------------------------------------------
\* the reader is at a read of the file loop
file_streaming == pc = "multipart" /\ mp # NoMp /\ mp.at \in MpFileSites

\* the length of buffs after the read of this step:
\* `buffs.resize(size)`, `buffs.resize(start_read_pos + size)`,
\* `buffs.resize(1 + size)`
buffs_len_after_read ==
    IF mp.at = "file_none" THEN Len(wire) - Len(wire')
    ELSE Len(mp.buffs) + (Len(wire) - Len(wire'))

sliding_buffer_bound ==
    read_buff_increase_size + Len(crlf_boundary_sequence(mp))

\* C31: while a file part is streamed to its spool file, the sliding buffer
\* never holds more than read_buff_increase_size + |CRLF_DASH_B| bytes, at
\* every read of the file loop and for every read segmentation.
C31_SlidingBufferBounded ==
    /\ [](file_streaming => Len(mp.buffs) <= sliding_buffer_bound)
    /\ [][(file_streaming /\ wire' # wire)
          => buffs_len_after_read <= sliding_buffer_bound]_vars

\* ------------------------------------------------------------------------
\* The head parser (specification Spec)
\* ------------------------------------------------------------------------
\* no terminator starts at one of the first n positions of data
no_terminator_within(data, n) ==
    \A i \in 1..n : i + 3 <= Len(data) => SubSeq(data, i, i + 3) # double_crlf

\* what read_http_head returns for the bytes read so far: a head is the bytes
\* before the first terminator, the initial body segment is what follows the
\* terminator and is absent when nothing follows; without a terminator in the
\* bytes read the parser does not return a head
head_split_exact(data) ==
    LET r == read_http_head(data)
        segment == IF r.possible_body = <<>> THEN <<>> ELSE r.possible_body[1]
    IN  /\ r.kind = "head" =>
             /\ data = r.head \o double_crlf \o segment
             /\ no_terminator_within(data, Len(r.head))
             /\ r.possible_body # <<>> => segment # <<>>
        /\ r.kind # "head" => no_terminator_within(data, Len(data)) \/ ~is_utf8(data)

\* the bytes the step takes from the socket
taken_from_wire == SubSeq(wire, 1, Len(wire) - Len(wire'))

\* C32: the head parser loses and duplicates no bytes: a returned head is the
\* bytes before the first terminator read from the socket, the initial body
\* segment is the bytes read after it (absent if none), head + terminator +
\* segment is everything read so far, and a read of zero bytes before the
\* terminator fails the parse.
C32_HeadSplitExact ==
    /\ [](pc = "read_head" =>
            \A n \in read_sizes(cap - Len(read_buffs)) :
               head_split_exact(read_buffs \o SubSeq(wire, 1, n)))
    /\ [][(pc = "read_head" /\ pc' \notin {"read_head", "closed", "panicked"}) =>
            /\ Len(read_buffs \o taken_from_wire) >= Len(head_content') + 4
            /\ SubSeq(read_buffs \o taken_from_wire, 1, Len(head_content') + 4)
                 = head_content' \o double_crlf
            /\ no_terminator_within(read_buffs \o taken_from_wire, Len(head_content'))]_vars
    /\ [][(pc = "read_head" /\ wire = <<>> /\ wire' = <<>>) => pc' = "closed"]_vars

\* a head has been read in several reads together with the first bytes of the
\* body
C32_Witness ==
    /\ pc = "read_body" /\ head_content # <<>> /\ container # <<>>
    /\ Len(head_content) > read_buff_increase_size

\* ------------------------------------------------------------------------
\* Repeated request headers (specification Spec)
\* ------------------------------------------------------------------------
\* the header lines of a head: what follows the request line, split at CRLF
header_lines(head) ==
    IF Find(head, CRLF) = 0 THEN <<>>
    ELSE split(SubSeq(head, Find(head, CRLF) + 2, Len(head)), CRLF)

\* the lines of the head whose name is `name` ignoring case
occurrences(head, name) ==
    {i \in 1..Len(header_lines(head)) :
       /\ split_once(header_lines(head)[i], <<":">>) # <<>>
       /\ to_lowercase(trim(split_once(header_lines(head)[i], <<":">>)[1]))
            = to_lowercase(name)}

\* the value of the last line named `name`; <<>> when there is none
last_occurrence(head, name) ==
    IF occurrences(head, name) = {} THEN <<>>
    ELSE LET last == CHOOSE i \in occurrences(head, name) :
                        \A j \in occurrences(head, name) : j <= i
         IN  <<trim(split_once(header_lines(head)[last], <<":">>)[2])>>

\* Request::get_header on the parsed head map: the Options the HashMap's
\* iteration order can produce
get_header(head_map, key) ==
    IF keys_matching(head_map, key) = {} THEN {<<>>}
    ELSE {<<head_map[k]>> : k \in keys_matching(head_map, key)}

\* C33: request headers are a case-insensitive mapping in which the last
\* occurrence of a name wins: for a parsed request every lookup by name
\* (get_header, and with it the keep-alive detection) yields the value of the
\* last header line with that name ignoring case, and nothing else.
C33_LastHeaderWins ==
    (pc = "route" /\ request # NoRequest) =>
       /\ \A name \in {S_connection, S_content_length, S_content_type} :
             get_header(request.map, name) = {last_occurrence(head_content, name)}
       /\ need_alive = (/\ last_occurrence(head_content, S_connection) # <<>>
                        /\ to_lowercase(last_occurrence(head_content, S_connection)[1])
                             = S_keep_alive)

\* ------------------------------------------------------------------------
\* The spool path (specification SpecMultipart)
\* ------------------------------------------------------------------------
\* the spool path is <upload_directory>/<uuid><extension> with nothing of the
\* extension naming a further directory
direct_child(filepath) ==
    /\ filepath.upload_directory = "./upload"
    /\ ~Contains(filepath.extension, S_slash)

\* every file entry of a form has its spool file, a direct child of the upload
\* directory
files_inside_upload_directory(b) ==
    \A k \in file_entries(b.form) :
       /\ direct_child(b.form[k].filepath)
       /\ spooled(b.form[k]) # {}

\* C34: whatever filename the client supplies, a `/` after its last `.`
\* included, the file of every file part is created inside upload_directory
\* as <uuid><extension> and nowhere else: every spool file is a direct child,
\* the reader does not fail on the filename, and a form at the handler has the
\* file of each of its file parts.
C34_SpoolInsideUploadDirectory ==
    /\ \A j \in 1..Len(upload_directory) : direct_child(upload_directory[j].filepath)
    /\ pc # "panicked"
    /\ multi_at_handler => files_inside_upload_directory(body)

\* ------------------------------------------------------------------------
\* Single-shot responses (specification SpecWriter)
\* ------------------------------------------------------------------------
\* the header lines written whose name is Content-Length in any letter case
content_length_lines ==
    {l \in out.header.headers :
       to_lowercase(split_once(l, <<":">>)[1]) = S_content_length}

\* a single-shot response with a body in memory has been written completely
\* to a request other than HEAD
single_shot_written ==
    /\ pc = "wrote" /\ result = "ok" /\ ~response.chunked
    /\ request.method # S_HEAD /\ response.body.tag = "Memory"

\* C35: in single-shot mode, for a request other than HEAD whose body was set
\* by write_string or write_binary, the writes after the header block are the
\* body bytes (or the range window) in order, each of 1..chunk_size bytes,
\* and the content length emitted is the number of body bytes written.
C35_SingleShotBody ==
    single_shot_written =>
        /\ concat(out.writes) = expected_body(response)
        /\ \A i \in 1..Len(out.writes) :
              Len(out.writes[i]) >= 1 /\ Len(out.writes[i]) <= chunk_size
        /\ content_length_lines # {}
        /\ \A l \in content_length_lines :
              l = header_line(split_once(l, <<":">>)[1],
                              to_string(Len(concat(out.writes))))

\* ------------------------------------------------------------------------
\* The loops of write_once and write_chunk, one stream.write per step
\* (specification SpecWriteLoop)
\* ------------------------------------------------------------------------
\* largest body and largest chunk size explored; the iterations of a loop
\* that are followed
MaxLoopBody == 5
MaxChunkSize == 3
MaxRounds == 7

\* write_once / write_chunk up to their loop: take_body_buff (not called by
\* write_once for HEAD), header_to_string and the stream.write of the header
\* block.  take_body_buff returns Err or panics, header_to_string panics, and
\* the stream.write returns Err (nothing of the response is sent), as the
\* code has it; both writers return Ok after the header block for HEAD.
WriterEnter ==
    /\ pc = "write" /\ writer = NoWriter
    /\ \E overflow_checks \in BOOLEAN, header_written \in BOOLEAN :
        \E b \in (IF ~response.chunked /\ response.method = S_HEAD
                  THEN {[kind |-> "ok", res |-> response, buffs |-> <<>>]}
                  ELSE take_body_buff(response, overflow_checks)) :
         /\ response' = b.res
         /\ IF b.kind = "panic" \/ (b.kind = "ok" /\ header_to_string(b.res).panic)
            THEN /\ pc' = "panicked" /\ result' = "panic"
                 /\ UNCHANGED <<out, written, writer>>
            ELSE IF b.kind = "err"
            THEN /\ pc' = "wrote" /\ result' = "body_error"
                 /\ UNCHANGED <<out, written, writer>>
            ELSE IF ~header_written
            THEN /\ pc' = "wrote" /\ result' = "io_error"
                 /\ UNCHANGED <<out, written, writer>>
            ELSE /\ out' = [sent_header |-> TRUE, header |-> header_to_string(b.res),
                            writes |-> <<>>, raw |-> out.raw]
                 /\ IF response.method = S_HEAD
                    THEN /\ writer' = NoWriter
                         /\ pc' = "wrote" /\ result' = "ok"
                         /\ written' = Append(written, nreq)
                    ELSE /\ writer' = [lazy_buffs |-> b.buffs, start |-> 0,
                                       rounds |-> 0, call |-> 0]
                         /\ pc' = "write_loop" /\ UNCHANGED <<result, written>>
    /\ UNCHANGED <<wire, sent, read_buffs, cap, nreq, head_content, request,
                   need_alive, body_type, container, need_read_size, body, handled,
                   chunk_size, ops_bound, router_map, invoked, mp, upload_directory,
                   posted, pool>>

\* `let mut end = start + chunked_size; if end > total_len { end = total_len; }`
loop_end_pos == Min(writer.start + chunk_size, Len(writer.lazy_buffs))
loop_slice == SubSeq(writer.lazy_buffs, writer.start + 1, loop_end_pos)

\* one stream.write of an iteration of a writer loop returns Ok; calls are
\* the stream.write calls of the iteration and writer.call of them have been
\* made; after the last one `start = end`.  rounds counts the iterations
\* modulo MaxRounds and the writes of the first MaxRounds iterations are
\* recorded.
write_loop_call(calls) ==
    /\ pc = "write_loop"
    /\ writer.start < Len(writer.lazy_buffs)
    /\ out' = IF Len(out.writes) < MaxRounds * Len(calls)
              THEN [out EXCEPT !.writes = Append(@, calls[writer.call + 1])]
              ELSE out
    /\ writer' = IF writer.call + 1 < Len(calls)
                 THEN [writer EXCEPT !.call = @ + 1]
                 ELSE [writer EXCEPT !.start = loop_end_pos,
                                     !.rounds = (@ + 1) % MaxRounds,
                                     !.call = 0]
    /\ UNCHANGED <<wire, sent, pc, read_buffs, cap, nreq, head_content, request,
                   need_alive, body_type, container, need_read_size, body, response,
                   result, handled, written, chunk_size, ops_bound, router_map,
                   invoked, mp, upload_directory, posted, pool>>

\* the loop of write_once: `stream.write(slice)?; start = end;`
WriteOnceWrite ==
    /\ ~response.chunked
    /\ write_loop_call(<<loop_slice>>)

\* the loop of write_chunk, one stream.write per step: the size in hex, CRLF,
\* the slice, CRLF
WriteChunkWrite ==
    /\ response.chunked
    /\ write_loop_call(<<format_upper_hex(Len(loop_slice)), CRLF, loop_slice, CRLF>>)

\* `if start >= total_len { break; }` and what follows the loop: write_once
\* returns Ok; write_chunk writes `0\r\n\r\n` and returns Ok, or Err when
\* this stream.write returns Err
WriteLoopExit ==
    /\ pc = "write_loop"
    /\ writer.start >= Len(writer.lazy_buffs)
    /\ \E last_written \in BOOLEAN :
         /\ last_written \/ response.chunked
         /\ out' = IF last_written /\ response.chunked
                   THEN [out EXCEPT !.writes = Append(@, <<"0", "\r", "\n", "\r", "\n">>)]
                   ELSE out
         /\ result' = IF last_written THEN "ok" ELSE "io_error"
         /\ written' = IF last_written THEN Append(written, nreq) ELSE written
    /\ pc' = "wrote"
    /\ writer' = NoWriter
    /\ UNCHANGED <<wire, sent, read_buffs, cap, nreq, head_content, request,
                   need_alive, body_type, container, need_read_size, body, response,
                   handled, chunk_size, ops_bound, router_map, invoked, mp,
                   upload_directory, posted, pool>>

\* a stream.write of a loop returns Err: `?` leaves the writer, and what the
\* earlier calls of the iteration have written stays written
WriteLoopError ==
    /\ pc = "write_loop"
    /\ writer.start < Len(writer.lazy_buffs)
    /\ pc' = "wrote" /\ result' = "io_error"
    /\ writer' = NoWriter
    /\ UNCHANGED <<wire, sent, read_buffs, cap, nreq, head_content, request,
                   need_alive, body_type, container, need_read_size, body, response,
                   out, handled, written, chunk_size, ops_bound, router_map, invoked,
                   mp, upload_directory, posted, pool>>

\* the handler has set a body of 0..MaxLoopBody bytes with write_binary, with
\* or without chunked(), and without a range or with the range 9-1 of a
\* request with `Range: bytes=9-1`, which take_body_buff answers with Err;
\* set_chunksize has been called with 0..MaxChunkSize
InitWriteLoop ==
    /\ wire = <<>>
    /\ sent = 1
    /\ pc = "write"
    /\ read_buffs = <<>>
    /\ cap = 0
    /\ nreq = 1
    /\ head_content \in {HeadGet, HeadHead}
    /\ request = parse_header(head_content).req
    /\ need_alive \in is_keep_alive(request.map)
    /\ body_type = <<>>
    /\ container = <<>> /\ need_read_size = 0 /\ body = BodyNone
    /\ \E n \in 0..MaxLoopBody, rg \in {RangeNone, Range(<<9>>, <<1>>)} :
         \E r \in {[write_binary(new_response(request.method, request.version,
                                              request.map),
                                 SubSeq(Bytes10, 1, n))
                       EXCEPT !.range = rg]} :
            response \in {r} \cup chunked(r)
    /\ out = NoOut
    /\ result = ""
    /\ handled = {1}
    /\ written = <<>>
    /\ chunk_size \in 0..MaxChunkSize
    /\ ops_bound = DriverOps
    /\ router_map = ServerRouter
    /\ invoked = NoInvocation
    /\ mp = NoMp /\ upload_directory = <<>> /\ posted = NoForm /\ pool = NoPool
    /\ writer = NoWriter

NextWriteLoop ==
    \/ WriterEnter
    \/ WriteOnceWrite
    \/ WriteChunkWrite
    \/ WriteLoopExit
    \/ WriteLoopError

\* every socket write returns: a step of the writer that can be taken is taken
SpecWriteLoop ==
    /\ InitWriteLoop /\ [][NextWriteLoop]_vars
    /\ WF_vars(WriterEnter) /\ WF_vars(WriteOnceWrite) /\ WF_vars(WriteChunkWrite)
    /\ WF_vars(WriteLoopExit)

\* C36: writing a response terminates: for every body length and every
\* chunk_size that set_chunksize accepts, 0 included, the single-shot writer
\* and the chunked writer finish after finitely many writes when every socket
\* write returns.
C36_WriterTerminates ==
    <>(pc = "wrote")

\* ------------------------------------------------------------------------
\* Dispatch of connections to the workers (specification SpecPool)
\* ------------------------------------------------------------------------
\* the connections of the polls that went to worker i, in the order of the calls
RECURSIVE dispatched_to(_, _)
dispatched_to(polls, i) ==
    IF polls = <<>> THEN <<>>
    ELSE IF Head(polls).result = "ok" /\ Head(polls).to = i
    THEN <<Head(polls).data>> \o dispatched_to(Tail(polls), i)
    ELSE dispatched_to(Tail(polls), i)

\* the number of polls among the first k that returned Ok
ok_polls(polls, k) == Cardinality({j \in 1..k : polls[j].result = "ok"})

\* C37: for any worker count, every connection for which poll returned Ok
\* has gone to a worker and is received by that worker exactly once; the
\* successful dispatches go to the workers 0, 1, ..., N-1, 0, ... in turn; a
\* worker receives what was dispatched to it in the order of the dispatches
\* and handles one connection at a time.
C37_DispatchExactlyOnce ==
    /\ \A k \in 1..Len(pool.polls) :
          pool.polls[k].result = "ok" =>
             /\ pool.polls[k].to # 0
             /\ pool.max > 0
             /\ pool.polls[k].to = (ok_polls(pool.polls, k - 1) % pool.max) + 1
    /\ \A i \in 1..Len(pool.tasks) :
          /\ pool.tasks[i].received \o pool.tasks[i].queue
               = dispatched_to(pool.polls, i)
          /\ pool.tasks[i].busy # 0 =>
                pool.tasks[i].busy
                   = pool.tasks[i].received[Len(pool.tasks[i].received)]

\* ------------------------------------------------------------------------
\* The body bytes handed to the handler (specification SpecBody)
\* ------------------------------------------------------------------------
\* the bytes of a message that follow its head terminator
after_terminator(msg) == SubSeq(msg, find_double_crlf(msg) + 4, Len(msg))

\* the messages of SpecBody whose head is the head of this iteration and whose
\* bytes after the terminator are those taken into the container followed by
\* those still unread
messages_of_head ==
    {msg \in BodyRequests :
       /\ head_content = SubSeq(msg, 1, find_double_crlf(msg) - 1)
       /\ after_terminator(msg) = container \o wire}

\* a request with a body that is not multipart is at the router
body_at_handler ==
    /\ pc = "route" /\ result = "" /\ request # NoRequest
    /\ body.tag \in {"PureText", "UrlForm"}

\* C38: the body of a non-multipart request that reaches a handler is exactly
\* its Content-Length bytes, the first Content-Length bytes that follow the
\* head terminator, also when the read that delivered the head delivered more.
C38_BodyIsContentLength ==
    body_at_handler =>
      \A cl \in content_lengths : cl # <<>> =>
        \A msg \in messages_of_head :
          /\ Len(container) = cl[1]
          /\ container = SubSeq(after_terminator(msg), 1, cl[1])
          /\ body.tag = "PureText" => body.text = container

\* ------------------------------------------------------------------------
\* A head without header lines (specification Spec)
\* ------------------------------------------------------------------------
\* the head is a request line of three tokens and nothing else
request_line_only(head) ==
    /\ head # <<>>
    /\ ~Contains(head, CRLF)
    /\ Len(split(head, <<" ">>)) = 3
    /\ \A i \in 1..3 : trim(split(head, <<" ">>)[i]) # <<>>

\* C39: a head that is a well-formed request line followed at once by the
\* terminator, with no header line, is parsed and routed like any request
\* without a body: it is not refused, and it goes to the router with the
\* three tokens of its line, an empty header map and body None.
C39_NoHeaderLines ==
    request_line_only(head_content) =>
       /\ parse_header(head_content).kind = "ok"
       /\ result # "rejected"
       /\ pc \in {"route", "write", "wrote", "loop_end"} =>
             /\ request.method = split(head_content, <<" ">>)[1]
             /\ request.map = EmptyMap
             /\ body = BodyNone

\* ------------------------------------------------------------------------
\* The upload directory after a refused multipart request (SpecMultipart)
\* ------------------------------------------------------------------------
\* the spool files that exist
remaining_spool_files ==
    {j \in 1..Len(upload_directory) : upload_directory[j].exists}

\* the body reader has returned an error for the multipart request: no handler
\* runs for it
multipart_rejected == pc = "closed" /\ result = "rejected" /\ nreq \notin handled

\* C40: when a multipart request is refused by the body reader, no spool file
\* created for any of its parts remains in the upload directory, the files of
\* the parts that had been received completely included.
C40_RejectedLeavesNoSpool ==
    multipart_rejected => remaining_spool_files = {}

====
